---- MODULE Spec2Model ----
(***************************************************************************)
(* Model of the foco-total dashboard (src/App.tsx): the AppContent         *)
(* component's entity store, its remote load/save effects with the         *)
(* debounce timer, and the goal/task filter engine.                        *)
(*                                                                         *)
(* One action is one event of the single-threaded event loop: a user       *)
(* handler, a promise continuation or a timer callback, together with the  *)
(* render and the effect clean-ups/effects that React runs for it.         *)
(***************************************************************************)
EXTENDS Integers, Sequences, FiniteSets, TLC

(* ------------------------------ bounds -------------------------------- *)
MaxGoals == 1
MaxTasks == 1
MaxNotes == 1
MaxInFlight == 1
MaxTimers == 2
MaxLoads == 2
MaxLogins == 2
MaxProjects == 2
MaxBlocks == 6
MaxEdges == 5
MaxEdits == 2
MaxPromptTasks == 2

(* --------------------------- program constants ------------------------ *)
DebounceMs == 400
TickMs == DebounceMs \div 2

Users == {"pascoto", "yasmin"}
NoUser == "<null>"

Today == 8
Days == (Today - 7)..(Today + 1)
EmptyYmd == 0
Invalid == -1

NoCategory == "<absent>"
Categories == {"Trabalho", "Outros"}

(* A stored date string: the yyyy-MM-dd part and the time suffix.         *)
DateStr(ymd, time) == [ymd |-> ymd, time |-> time]
Noon(ymd) == DateStr(ymd, "T12:00:00")

(* date-fns parseISO: hours since the epoch of the model, or Invalid.      *)
parseISO(s) ==
  IF s.ymd \in Days
    THEN s.ymd * 24 + (IF s.time = "T12:00:00" THEN 12 ELSE 0)
    ELSE Invalid

isSameDay(a, b) == a # Invalid /\ b # Invalid /\ (a \div 24) = (b \div 24)
isBefore(a, b) == a # Invalid /\ b # Invalid /\ a < b

(* ------------------------------ entities ------------------------------ *)
Goal(id, title, completed, date, category, isDaily) ==
  [id |-> id, title |-> title, completed |-> completed, date |-> date,
   category |-> category, isDaily |-> isDaily]

Task(id, title, completed, scheduledDate, category, isDaily) ==
  [id |-> id, title |-> title, completed |-> completed,
   scheduledDate |-> scheduledDate, category |-> category, isDaily |-> isDaily]

getEmptyData ==
  [goals |-> <<>>, tasks |-> <<>>, notes |-> <<>>,
   projects |-> <<>>, blocks |-> <<>>, edges |-> <<>>]

Fields == {"goals", "tasks", "notes", "projects", "blocks", "edges"}

(* ------------------------- remote document store ---------------------- *)
(* A stored field is an array, is missing, or holds a non-array value.     *)
Arr(s) == [kind |-> "array", val |-> s]
Missing == [kind |-> "missing", val |-> <<"<undefined>">>]
NotArray == [kind |-> "other", val |-> <<"<not an array>">>]

AbsentDoc ==
  [exists |-> FALSE, goals |-> Missing, tasks |-> Missing, notes |-> Missing,
   projects |-> Missing, blocks |-> Missing, edges |-> Missing, extra |-> 0]

Doc(g, t, n, p, b, e, x) ==
  [exists |-> TRUE, goals |-> g, tasks |-> t, notes |-> n,
   projects |-> p, blocks |-> b, edges |-> e, extra |-> x]

isArray(f) == f.kind = "array"

Coerce(f) == IF isArray(f) THEN f.val ELSE <<>>

loadUserDataWrongField(d) ==
  IF ~d.exists THEN getEmptyData
  ELSE [goals |-> Coerce(d.goals), tasks |-> Coerce(d.tasks),
        notes |-> Coerce(d.edges), projects |-> Coerce(d.projects),
        blocks |-> Coerce(d.blocks), edges |-> Coerce(d.edges)]

loadUserData(d) ==
  IF ~d.exists THEN getEmptyData
  ELSE [goals |-> Coerce(d.goals), tasks |-> Coerce(d.tasks),
        notes |-> Coerce(d.notes), projects |-> Coerce(d.projects),
        blocks |-> Coerce(d.blocks), edges |-> Coerce(d.edges)]

(* setDoc(ref, payload, {merge: true}): the six payload fields replace the *)
(* stored ones in full, every other stored field is left as it is.         *)
setDocMerge(d, payload) ==
  [exists |-> TRUE,
   goals |-> Arr(payload.goals), tasks |-> Arr(payload.tasks),
   notes |-> Arr(payload.notes), projects |-> Arr(payload.projects),
   blocks |-> Arr(payload.blocks), edges |-> Arr(payload.edges),
   extra |-> d.extra]

(* ------------------------------- state -------------------------------- *)
VARIABLES
  user,            \* App: the logged-in username, NoUser when logged out
  goals, tasks, notes, projects, blocks, edges,   \* AppContent useState
  isLoading, canSave,                             \* AppContent useState
  hasLoadedRef,    \* useRef(false)
  saveTimerRef,    \* useRef(null): 0 is null, otherwise a timer id
  saveCleanup,     \* the last run of the save effect returned a clean-up
  timers,          \* window timers that are armed
  loads,           \* loadUserData promises that have not settled
  saves,           \* saveUserData promises that have not settled
  remote,          \* document store: username -> document
  filterDate, filterCategory, filterStatus, activeFilterTab,
  currentGoals, currentTasks,                     \* useMemo results
  lastEvent,       \* history: name of the last event
  dirty,           \* history: a collection was mutated since the mount
  quiet,           \* history: ms since the collections last changed
  loadedFor,       \* history: username whose load settled successfully
  pendingMut,      \* history: a mutation no save request has carried yet
  logins,          \* history: number of mounts and user changes so far
  burst,           \* history: mutations since a timer was last armed afresh, up to 2
  edits,           \* history: diagram edits of this session, up to MaxEdits
  raced,           \* history: the last mutation ran while a load was in flight
  pathname,        \* HashRouter: location.pathname
  activeCompany,   \* AppContent useState: the open company workspace
  flowSnap,        \* mounted StrategyFlow instances: project id -> the blocks
                   \* array that the memoised node buttons close over
  insight          \* getProductivityInsight: the call in progress, if any

storeVars == <<goals, tasks, notes, projects, blocks, edges>>
flagVars == <<isLoading, canSave, hasLoadedRef>>
timerVars == <<saveTimerRef, saveCleanup, timers>>
filterVars == <<filterDate, filterCategory, filterStatus, activeFilterTab>>
memoVars == <<currentGoals, currentTasks>>
histVars ==
  <<lastEvent, dirty, quiet, loadedFor, pendingMut, logins, burst, edits, raced>>
viewVars == <<pathname, activeCompany, flowSnap>>
vars == <<user, storeVars, flagVars, timerVars, loads, saves, remote,
          filterVars, memoVars, histVars, viewVars, insight>>

Bundle ==
  [goals |-> goals, tasks |-> tasks, notes |-> notes,
   projects |-> projects, blocks |-> blocks, edges |-> edges]

(* ---------------------------- filter engine --------------------------- *)
matchesStatus(item, fStatus) ==
  IF fStatus = "TODOS" THEN TRUE
  ELSE IF fStatus = "CONCLUIDOS" THEN item.completed
  ELSE ~item.completed

itemCategory(item) ==
  IF item.category = NoCategory THEN "Outros" ELSE item.category

applyFilters(items, dateKey, includeOverdue, fDate, fCategory, fStatus) ==
  LET selectedDate == parseISO(DateStr(fDate, ""))
      keep(item) ==
        LET itemDate == parseISO(item[dateKey])
            matchesDate == isSameDay(itemDate, selectedDate)
            matchesDaily == item.isDaily
            matchesOverdue == includeOverdue /\ ~item.completed
                              /\ isBefore(itemDate, selectedDate)
            matchesCategory == fCategory = "TUDO" \/ itemCategory(item) = fCategory
        IN (matchesDate \/ matchesDaily \/ matchesOverdue)
           /\ matchesCategory /\ matchesStatus(item, fStatus)
  IN SelectSeq(items, keep)

GoalsOverdueFlagWrong == TRUE

GoalsOverdueFlag == FALSE

useMemoGoals(gs, fDate, fCategory, fStatus) ==
  applyFilters(gs, "date", GoalsOverdueFlag, fDate, fCategory, fStatus)

TasksOverdueFlagWrong == FALSE

TasksOverdueFlag == TRUE

useMemoTasks(ts, fDate, fCategory, fStatus) ==
  applyFilters(ts, "scheduledDate", TasksOverdueFlag, fDate, fCategory, fStatus)

(* ----------------------------- save effect ---------------------------- *)
clearTimeoutNoop(ts, id) == ts

clearTimeout(ts, id) == {t \in ts : t.id # id}

TimerIds == 1..(MaxTimers + 1)

(* window.setTimeout returns an id that no armed timer carries.            *)
setTimeoutId(ts) ==
  CHOOSE i \in TimerIds :
    /\ i \notin {t.id : t \in ts}
    /\ \A j \in TimerIds : j \notin {t.id : t \in ts} => i <= j

SaveGateNoLoadCheck(hl, il, cs) == cs

SaveGateWhileLoading(hl, il, cs) == hl /\ il /\ cs

SaveGateIgnoresCanSave(hl, il, cs) == hl /\ ~il

SaveGate(hl, il, cs) == hl /\ ~il /\ cs

CleanupKeepsTimer(ts) == ts

(* The clean-up returned by the previous run of the save effect.           *)
SaveEffectCleanup(ts) ==
  IF saveCleanup THEN clearTimeout(ts, saveTimerRef) ELSE ts

(* The save effect, run after a render in which one of its dependencies   *)
(* changed; u, b, il, cs are the values of that render, hl the ref.        *)
SaveEffect(u, b, hl, il, cs) ==
  LET cleaned == SaveEffectCleanup(timers) IN
  IF SaveGate(hl, il, cs)
    THEN LET kept == clearTimeout(cleaned, saveTimerRef)
             id == setTimeoutId(kept)
         IN /\ Cardinality(kept) < MaxTimers
            /\ timers' = kept \cup {[id |-> id, user |-> u, payload |-> b,
                                     remaining |-> DebounceMs]}
            /\ saveTimerRef' = id
            /\ saveCleanup' = TRUE
    ELSE /\ timers' = cleaned
         /\ saveTimerRef' = saveTimerRef
         /\ saveCleanup' = FALSE

NoInsight == [pc |-> "idle"]

(* ------------------------------ helpers ------------------------------- *)
Range(s) == {s[i] : i \in 1..Len(s)}

MapSeq(s, F(_)) == [i \in 1..Len(s) |-> F(s[i])]

IdsIn(s) == {x.id : x \in Range(s)}

ItemIds == 1..(MaxGoals + MaxTasks + 1)

(* crypto.randomUUID(): an id that no item of the store carries.           *)
randomUUID ==
  LET used == IdsIn(goals) \cup IdsIn(tasks)
      free == ItemIds \ used
  IN CHOOSE i \in free : \A j \in free : i <= j

InitialFilterDate == Today

NoCompany == "<null>"
Companies == {"Empório Pascoto", "Pascoto100k"}

(* No StrategyFlow is mounted.                                             *)
NoFlows == [pid \in {} |-> <<>>]

(* The projects whose StrategyFlow the render shows: the strategy route,   *)
(* isPascoto, an open company workspace, getCompanyProjects(activeCompany). *)
FlowsShown(u, path, company, ps) ==
  IF u = "pascoto" /\ path = "/strategy" /\ company # NoCompany
    THEN {ps[i].id : i \in {j \in 1..Len(ps) : ps[j].company = company}}
    ELSE {}

(* A render: a StrategyFlow that stays mounted keeps the nodeTypes memo of *)
(* its first render (dependencies [isFem]) and with it the onEditNode and  *)
(* onDuplicateNode props of that render, which close over the blocks of    *)
(* that render; a newly shown one takes the blocks bs of this render.      *)
FlowRender(u, path, company, ps, bs) ==
  [pid \in FlowsShown(u, path, company, ps) |->
     IF pid \in DOMAIN flowSnap THEN flowSnap[pid] ELSE bs]

(* The state a freshly mounted AppContent starts from (useState/useRef).   *)
MountState ==
  /\ goals = <<>> /\ tasks = <<>> /\ notes = <<>>
  /\ projects = <<>> /\ blocks = <<>> /\ edges = <<>>
  /\ isLoading = TRUE /\ canSave = FALSE /\ hasLoadedRef = FALSE
  /\ saveTimerRef = 0 /\ saveCleanup = FALSE
  /\ filterDate = InitialFilterDate /\ filterCategory = "TUDO"
  /\ filterStatus = "TODOS" /\ activeFilterTab = "HOJE"
  /\ currentGoals = <<>> /\ currentTasks = <<>>
  /\ activeCompany = NoCompany /\ flowSnap = NoFlows

(* The same values, taken by a component instance that mounts.             *)
Mount ==
  /\ goals' = <<>> /\ tasks' = <<>> /\ notes' = <<>>
  /\ projects' = <<>> /\ blocks' = <<>> /\ edges' = <<>>
  /\ isLoading' = TRUE /\ canSave' = FALSE /\ hasLoadedRef' = FALSE
  /\ saveTimerRef' = 0 /\ saveCleanup' = FALSE
  /\ filterDate' = InitialFilterDate /\ filterCategory' = "TUDO"
  /\ filterStatus' = "TODOS" /\ activeFilterTab' = "HOJE"
  /\ currentGoals' = <<>> /\ currentTasks' = <<>>
  /\ activeCompany' = NoCompany /\ flowSnap' = NoFlows

(* A render with the store b: the memos and the save effect follow.        *)
Render(u, b, hl, il, cs) ==
  /\ goals' = b.goals /\ tasks' = b.tasks /\ notes' = b.notes
  /\ projects' = b.projects /\ blocks' = b.blocks /\ edges' = b.edges
  /\ currentGoals' = useMemoGoals(b.goals, filterDate, filterCategory, filterStatus)
  /\ currentTasks' = useMemoTasks(b.tasks, filterDate, filterCategory, filterStatus)
  /\ SaveEffect(u, b, hl, il, cs)

(* The handlers of the strategy view.                                      *)
DiagramEvents ==
  {"CreateProject", "DeleteProject", "AddBlock", "BlockForm",
   "TemplateFunnel", "TemplateStructure", "DuplicateNode", "NodesChange",
   "Connect", "EdgesChange", "DeleteBlock"}

(* Bookkeeping shared by the handlers that set a collection.               *)
Mutation(name, next) == \E b \in {next} :
  /\ user # NoUser
  /\ Render(user, b, hasLoadedRef, isLoading, canSave)
  /\ lastEvent' = name
  /\ dirty' = TRUE
  /\ quiet' = 0
  /\ pendingMut' = (loadedFor = user)
  /\ burst' = IF timers = {} THEN 1 ELSE IF burst < 2 THEN burst + 1 ELSE 2
  /\ name \in DiagramEvents => edits < MaxEdits
  /\ edits' = IF name \in DiagramEvents THEN edits + 1 ELSE edits
  /\ raced' = isLoading
  /\ flowSnap' = FlowRender(user, pathname, activeCompany, b.projects, b.blocks)
  /\ UNCHANGED <<user, flagVars, loads, saves, remote, filterVars, loadedFor,
                 logins, pathname, activeCompany, insight>>

(* ------------------------- session life cycle ------------------------- *)
(* The clean-up of the load effect: isMounted = false.                     *)
LoadEffectCleanup(ls, unmount) ==
  {[l EXCEPT !.isMounted = FALSE, !.current = l.current /\ ~unmount] : l \in ls}

(* Login.handleSubmit -> App.handleLogin: AppContent mounts for u.         *)
Login(u) ==
  /\ user = NoUser
  /\ logins < MaxLogins
  /\ Cardinality(loads) < MaxLoads
  /\ user' = u
  /\ Mount
  /\ timers' = timers
  /\ loads' = loads \cup {[user |-> u, isMounted |-> TRUE, current |-> TRUE]}
  /\ lastEvent' = "Login"
  /\ dirty' = FALSE /\ quiet' = 0 /\ loadedFor' = NoUser
  /\ pendingMut' = FALSE /\ logins' = logins + 1 /\ burst' = 0 /\ edits' = 0
  /\ raced' = FALSE
  /\ UNCHANGED <<saves, remote, pathname, insight>>

(* App.handleLogout: AppContent unmounts, both effect clean-ups run.       *)
Logout ==
  /\ user # NoUser
  /\ user' = NoUser
  /\ Mount
  /\ timers' = SaveEffectCleanup(timers)
  /\ loads' = LoadEffectCleanup(loads, TRUE)
  /\ lastEvent' = "Logout"
  /\ dirty' = FALSE /\ quiet' = 0 /\ loadedFor' = NoUser
  /\ pendingMut' = FALSE /\ logins' = logins /\ burst' = 0 /\ edits' = 0
  /\ raced' = FALSE
  /\ UNCHANGED <<saves, remote, pathname, insight>>

(* AppContent is re-rendered with another user.username: both effects     *)
(* are cleaned up and run again, the load effect first.                    *)
ChangeUser(u) ==
  /\ user # NoUser /\ u # user
  /\ logins < MaxLogins
  /\ Cardinality(loads) < MaxLoads
  /\ user' = u
  /\ isLoading' = TRUE
  /\ hasLoadedRef' = FALSE
  /\ canSave' = canSave
  /\ loads' = LoadEffectCleanup(loads, FALSE)
               \cup {[user |-> u, isMounted |-> TRUE, current |-> TRUE]}
  /\ SaveEffect(u, Bundle, FALSE, TRUE, canSave)
  /\ lastEvent' = "ChangeUser"
  /\ dirty' = FALSE /\ quiet' = quiet /\ loadedFor' = NoUser
  /\ pendingMut' = FALSE /\ logins' = logins + 1 /\ burst' = 0 /\ edits' = 0
  /\ raced' = FALSE
  /\ flowSnap' = [pid \in FlowsShown(u, pathname, activeCompany, projects)
                   |-> blocks]
  /\ UNCHANGED <<storeVars, saves, remote, filterVars, memoVars, pathname,
                 activeCompany, insight>>

(* --------------------------- load completion -------------------------- *)
LoadAppliesNoGuard(l) == l.current

(* if (!isMounted) return;                                                 *)
LoadApplies(l) == l.isMounted

StaleLoad(l) ==
  /\ loads' = loads \ {l}
  /\ lastEvent' = "StaleLoad"
  /\ UNCHANGED <<user, storeVars, flagVars, timerVars, saves, remote,
                 filterVars, memoVars, dirty, quiet, loadedFor, pendingMut,
                 logins, burst, edits, raced, viewVars, insight>>

CatchCanSaveWrong == TRUE

(* setCanSave(false) in the .catch branch.                                 *)
CatchCanSave == FALSE

(* loadUserData(...).then(...): the fetched document is applied.           *)
LoadResolve(l) ==
  /\ l \in loads
  /\ IF ~LoadApplies(l) THEN StaleLoad(l)
     ELSE /\ loads' = loads \ {l}
          /\ Render(user, loadUserData(remote[l.user]), TRUE, FALSE, TRUE)
          /\ flowSnap' = FlowRender(user, pathname, activeCompany,
                                    projects', blocks')
          /\ canSave' = TRUE
          /\ hasLoadedRef' = TRUE
          /\ isLoading' = FALSE
          /\ lastEvent' = "LoadResolve"
          /\ dirty' = FALSE /\ quiet' = 0 /\ loadedFor' = l.user
          /\ pendingMut' = FALSE /\ logins' = logins /\ burst' = 0
          /\ edits' = edits
          /\ raced' = raced
          /\ UNCHANGED <<user, saves, remote, filterVars, pathname,
                         activeCompany, insight>>

(* loadUserData(...).catch(...): getDoc rejected.                          *)
LoadReject(l) ==
  /\ l \in loads
  /\ IF ~LoadApplies(l) THEN StaleLoad(l)
     ELSE /\ loads' = loads \ {l}
          /\ Render(user, getEmptyData, TRUE, FALSE, CatchCanSave)
          /\ flowSnap' = FlowRender(user, pathname, activeCompany,
                                    projects', blocks')
          /\ canSave' = CatchCanSave
          /\ hasLoadedRef' = TRUE
          /\ isLoading' = FALSE
          /\ lastEvent' = "LoadReject"
          /\ dirty' = FALSE /\ quiet' = 0 /\ loadedFor' = NoUser
          /\ pendingMut' = FALSE /\ logins' = logins /\ burst' = 0
          /\ edits' = edits
          /\ raced' = raced
          /\ UNCHANGED <<user, saves, remote, filterVars, pathname,
                         activeCompany, insight>>

(* ------------------------- timers and save I/O ------------------------ *)
Min(a, b) == IF a < b THEN a ELSE b

(* TickMs of wall-clock time pass while a timer is armed; a due timer runs *)
(* before time moves on.                                                   *)
Tick ==
  /\ timers # {}
  /\ \A t \in timers : t.remaining > 0
  /\ timers' = {[t EXCEPT !.remaining = @ - TickMs] : t \in timers}
  /\ quiet' = Min(quiet + TickMs, DebounceMs)
  /\ lastEvent' = "Tick"
  /\ UNCHANGED <<user, storeVars, flagVars, saveTimerRef, saveCleanup, loads,
                 saves, remote, filterVars, memoVars, dirty, loadedFor,
                 pendingMut, logins, burst, edits, raced, viewVars, insight>>

saveUserDataDropsNotes(u, payload) ==
  [user |-> u, payload |-> [payload EXCEPT !.notes = <<>>]]

(* saveUserData(username, payload): the request handed to setDoc.          *)
saveUserData(u, payload) == [user |-> u, payload |-> payload]

(* The setTimeout callback of the save effect.                             *)
TimerFire(t) ==
  /\ t \in timers /\ t.remaining = 0
  /\ LET req == saveUserData(t.user, t.payload) IN
       /\ Cardinality(saves \cup {req}) <= MaxInFlight
       /\ saves' = saves \cup {req}
       /\ pendingMut' = (pendingMut /\ req.payload # Bundle)
  /\ timers' = timers \ {t}
  /\ lastEvent' = "TimerFire"
  /\ UNCHANGED <<user, storeVars, flagVars, saveTimerRef, saveCleanup, loads,
                 remote, filterVars, memoVars, dirty, quiet, loadedFor,
                 logins, burst, edits, raced, viewVars, insight>>

(* setDoc resolves: the document is written.                               *)
SaveResolve(r) ==
  /\ r \in saves
  /\ saves' = saves \ {r}
  /\ remote' = [remote EXCEPT ![r.user] = setDocMerge(@, r.payload)]
  /\ lastEvent' = "SaveResolve"
  /\ UNCHANGED <<user, storeVars, flagVars, timerVars, loads, filterVars,
                 memoVars, dirty, quiet, loadedFor, pendingMut, logins,
                 burst, edits, raced,
                 viewVars, insight>>

SaveCatchRetries(r) ==
  /\ timers' = timers \cup {[id |-> setTimeoutId(timers), user |-> r.user,
                            payload |-> r.payload, remaining |-> DebounceMs]}
  /\ UNCHANGED <<storeVars, flagVars, saveTimerRef, saveCleanup, memoVars>>

(* .catch(() => { /* ignore save errors */ })                              *)
SaveCatch(r) ==
  UNCHANGED <<storeVars, flagVars, timerVars, memoVars>>

(* setDoc rejects: nothing is written.                                     *)
SaveReject(r) ==
  /\ r \in saves
  /\ saves' = saves \ {r}
  /\ SaveCatch(r)
  /\ lastEvent' = "SaveReject"
  /\ UNCHANGED <<user, loads, remote, filterVars, dirty, quiet, loadedFor,
                 pendingMut, logins, burst, edits, raced, viewVars, insight>>

(* --------------------------- user handlers ---------------------------- *)
(* Goal form onSubmit; formDate is EmptyYmd when the date input is blank.  *)
AddGoal(title, cat, formDate, daily) ==
  /\ Len(goals) < MaxGoals
  /\ LET date == IF formDate = EmptyYmd THEN filterDate ELSE formDate
         g == Goal(randomUUID, title, FALSE, Noon(date), cat, daily)
     IN Mutation("AddGoal", [Bundle EXCEPT !.goals = <<g>> \o goals])

toggle(x) == [x EXCEPT !.completed = ~x.completed]

(* ChecklistItem onToggle of a goal shown in the filtered list.            *)
ToggleGoal(g) ==
  /\ g \in Range(currentGoals)
  /\ LET f(x) == IF x.id = g.id THEN toggle(x) ELSE x
     IN Mutation("ToggleGoal", [Bundle EXCEPT !.goals = MapSeq(goals, f)])

(* ChecklistItem onDelete of a goal shown in the filtered list.            *)
DeleteGoal(g) ==
  /\ g \in Range(currentGoals)
  /\ LET keep(x) == x.id # g.id
     IN Mutation("DeleteGoal", [Bundle EXCEPT !.goals = SelectSeq(goals, keep)])

(* 'Remover diarios' button of the goals panel.                            *)
RemoveDailyGoals ==
  LET keep(x) == ~x.isDaily
  IN Mutation("RemoveDailyGoals", [Bundle EXCEPT !.goals = SelectSeq(goals, keep)])

(* Task form onSubmit; a blank category select falls back to 'Outros'.     *)
AddTask(title, cat, formDate, daily) ==
  /\ Len(tasks) < MaxTasks
  /\ LET date == IF formDate = EmptyYmd THEN filterDate ELSE formDate
         category == IF cat = NoCategory THEN "Outros" ELSE cat
         t == Task(randomUUID, title, FALSE, Noon(date), category, daily)
     IN Mutation("AddTask", [Bundle EXCEPT !.tasks = <<t>> \o tasks])

ToggleTask(t) ==
  /\ t \in Range(currentTasks)
  /\ LET f(x) == IF x.id = t.id THEN toggle(x) ELSE x
     IN Mutation("ToggleTask", [Bundle EXCEPT !.tasks = MapSeq(tasks, f)])

DeleteTask(t) ==
  /\ t \in Range(currentTasks)
  /\ LET keep(x) == x.id # t.id
     IN Mutation("DeleteTask", [Bundle EXCEPT !.tasks = SelectSeq(tasks, keep)])

RemoveDailyTasks ==
  LET keep(x) == ~x.isDaily
  IN Mutation("RemoveDailyTasks", [Bundle EXCEPT !.tasks = SelectSeq(tasks, keep)])

(* 'Adicionar Nota': prompt() returned a non-empty text.                   *)
AddNote(text) ==
  /\ Len(notes) < MaxNotes
  /\ Mutation("AddNote", [Bundle EXCEPT !.notes = Append(notes, text)])

(* The X button of the note at position idx.                               *)
DeleteNote(idx) ==
  /\ idx \in 1..Len(notes)
  /\ LET rest == [i \in 1..(Len(notes) - 1) |->
                    IF i < idx THEN notes[i] ELSE notes[i + 1]]
     IN Mutation("DeleteNote", [Bundle EXCEPT !.notes = rest])

(* --------------------------- filter controls -------------------------- *)
FilterChange(fDate, fCategory, fStatus, tab) ==
  /\ user # NoUser
  /\ filterDate' = fDate /\ filterCategory' = fCategory
  /\ filterStatus' = fStatus /\ activeFilterTab' = tab
  /\ currentGoals' = useMemoGoals(goals, fDate, fCategory, fStatus)
  /\ currentTasks' = useMemoTasks(tasks, fDate, fCategory, fStatus)
  /\ lastEvent' = "FilterChange"
  /\ UNCHANGED <<user, storeVars, flagVars, timerVars, loads, saves, remote,
                 dirty, quiet, loadedFor, pendingMut, logins, burst, edits,
                 raced, viewVars,
                 insight>>

handleQuickDateFilter(type) ==
  LET date == IF type = "HOJE" THEN Today ELSE Today - 1
  IN FilterChange(date, filterCategory, filterStatus, type)

(* onChange of the date input; the value is '' when the input is cleared.  *)
SetFilterDate(value) ==
  FilterChange(value, filterCategory, filterStatus, "OUTRO")

SetFilterCategory(value) ==
  FilterChange(filterDate, value, filterStatus, activeFilterTab)

SetFilterStatus(value) ==
  FilterChange(filterDate, filterCategory, value, activeFilterTab)

(* ------------------------- sample documents --------------------------- *)
Project(id, title, type, createdAt, company) ==
  [id |-> id, title |-> title, type |-> type, createdAt |-> createdAt,
   company |-> company]

StrategyBlock(id, title, description, type, order, projectId, position) ==
  [id |-> id, title |-> title, description |-> description, type |-> type,
   order |-> order, projectId |-> projectId, position |-> position]

StrategyEdge(id, source, target, projectId) ==
  [id |-> id, source |-> source, target |-> target, projectId |-> projectId]

SampleGoals == <<Goal(1, "g1", FALSE, Noon(Today), "Trabalho", FALSE)>>
SampleTasks == <<Task(2, "t1", TRUE, Noon(Today - 1), NoCategory, FALSE)>>
SampleNotes == <<"n1">>
SampleProjects == <<Project(11, "p1", "funil", "c1", "Pascoto100k")>>
SampleBlocks ==
  <<StrategyBlock(12, "b1", "d1", "ads", 1, 11, [x |-> 80, y |-> 80]),
    StrategyBlock(13, "b2", "d2", "lp", 2, 11, [x |-> 320, y |-> 80])>>
SampleEdges == <<StrategyEdge(14, 12, 13, 11)>>

WellFormedDoc ==
  Doc(Arr(SampleGoals), Arr(SampleTasks), Arr(SampleNotes),
      Arr(SampleProjects), Arr(SampleBlocks), Arr(SampleEdges), 7)

PartialDoc ==
  Doc(Arr(SampleGoals), NotArray, Missing, Missing, NotArray, Arr(<<>>), 7)

(* ------------------------------ the system ---------------------------- *)
LoggedOut ==
  /\ user = NoUser
  /\ MountState
  /\ timers = {} /\ loads = {} /\ saves = {}
  /\ lastEvent = "Init"
  /\ dirty = FALSE /\ quiet = 0 /\ loadedFor = NoUser
  /\ pendingMut = FALSE /\ logins = 0 /\ burst = 0 /\ edits = 0
  /\ raced = FALSE
  /\ pathname = "/" /\ insight = NoInsight

(* pascoto has a stored document, yasmin has none yet.                      *)
Init ==
  /\ LoggedOut
  /\ remote = [pascoto |-> WellFormedDoc, yasmin |-> AbsentDoc]

Session ==
  \/ \E u \in Users : Login(u)
  \/ Logout
  \/ \E u \in Users : ChangeUser(u)
  \/ \E l \in loads : LoadResolve(l)
  \/ \E l \in loads : LoadReject(l)
  \/ Tick
  \/ \E t \in timers : TimerFire(t)
  \/ \E r \in saves : SaveResolve(r)
  \/ \E r \in saves : SaveReject(r)

SyncHandlers ==
  \/ \E g \in Range(currentGoals) : ToggleGoal(g)
  \/ AddNote("n1")
  \/ \E i \in 1..Len(notes) : DeleteNote(i)

Next == Session \/ SyncHandlers

Spec == Init /\ [][Next]_vars

(* Fairness: wall-clock time passes, a due timer callback is run by the    *)
(* event loop, and every setDoc request settles.                           *)
FairSpec ==
  /\ Spec
  /\ WF_vars(Tick)
  /\ WF_vars(\E t \in timers : TimerFire(t))
  /\ WF_vars(\E r \in saves : SaveResolve(r) \/ SaveReject(r))

(* ------------------------------ properties ---------------------------- *)
MutationEvents ==
  {"AddGoal", "ToggleGoal", "DeleteGoal", "RemoveDailyGoals", "AddTask",
   "ToggleTask", "DeleteTask", "RemoveDailyTasks", "AddNote", "DeleteNote",
   "CreateProject", "DeleteProject", "AddBlock", "BlockForm",
   "TemplateFunnel", "TemplateStructure", "DuplicateNode", "NodesChange",
   "Connect", "EdgesChange", "DeleteBlock"}

LoadSettleEvents == {"StaleLoad", "LoadResolve", "LoadReject"}

(* A timer that this step armed.                                           *)
ArmedNow == {t \in timers' : t \notin timers /\ t.remaining = DebounceMs}

(* The save requests that this step issued.                                *)
IssuedNow == saves' \ saves

(* C1: while no collection has been mutated since the load settled, no     *)
(* debounce timer is armed and no timer callback issues a save request.    *)
C1_LoadCausesNoSave ==
  (user # NoUser /\ ~dirty) => (timers = {} /\ lastEvent # "TimerFire")

(* C2: a timer is armed, and a save request for a username is issued, only *)
(* when the load of that username has settled in the current session: the  *)
(* loading flag is cleared and the last settled load was for that user.    *)
C2_SaveOnlyAfterLoad ==
  [][ /\ \A t \in timers' :
           /\ t.user = user' /\ loadedFor' = t.user
           /\ hasLoadedRef' /\ ~isLoading'
      /\ \A r \in IssuedNow :
           /\ r.user = user /\ loadedFor = r.user
           /\ hasLoadedRef /\ ~isLoading ]_vars

C2_Witness ==
  /\ lastEvent = "TimerFire" /\ user # NoUser /\ loadedFor = user
  /\ \E r \in saves : r.user = user

(* C3: at most one timer is armed; it is the one saveTimerRef names, it    *)
(* carries the six collections as of the last change and it is due one     *)
(* quiet period after that change; a save request is issued only when the  *)
(* quiet period has elapsed, with the current bundle as its payload, and   *)
(* leaves no timer armed, so a burst of mutations yields one request.      *)
C3_DebounceCollapse ==
  [][ /\ Cardinality(timers') <= 1
      /\ \A t \in timers' :
           /\ t.id = saveTimerRef' /\ t.user = user'
           /\ t.payload = Bundle'
           /\ DOMAIN t.payload = Fields
           /\ t.remaining = DebounceMs - quiet'
      /\ \A r \in IssuedNow :
           /\ quiet = DebounceMs
           /\ r.payload = Bundle /\ r.user = user
           /\ timers' = {} ]_vars

C3_Witness ==
  /\ lastEvent = "TimerFire" /\ burst = 2
  /\ \E r \in saves : r.payload = Bundle /\ r.user = user

(* C4: a logout or a change of username leaves no timer armed and         *)
(* invalidates every load started before it; when an invalidated load      *)
(* settles, by success or by failure, the six collections, isLoading,      *)
(* canSave and hasLoaded keep their values.                                *)
C4_SwitchCancels ==
  [][ /\ lastEvent' \in {"Logout", "ChangeUser"} =>
           /\ timers' = {}
           /\ \A l \in loads' : l.isMounted => (l.user = user' /\ l \notin loads)
      /\ (lastEvent' \in LoadSettleEvents
            /\ \E l \in loads \ loads' : ~l.isMounted) =>
           UNCHANGED <<storeVars, flagVars, timerVars>> ]_vars

C4_Witness ==
  /\ lastEvent = "StaleLoad" /\ user # NoUser /\ logins = 2
  /\ isLoading

(* C5: in a session whose load succeeded, once a mutation is pending and   *)
(* time has moved on, either a save request carrying the current bundle is *)
(* issued, or the session ends, or a further mutation restarts the quiet   *)
(* period.                                                                 *)
C5_EventualSave ==
  (pendingMut /\ lastEvent \notin MutationEvents)
    ~> (~pendingMut \/ lastEvent \in MutationEvents)

C5_Witness ==
  /\ lastEvent = "TimerFire" /\ dirty /\ ~pendingMut /\ loadedFor = user
  /\ \E r \in saves : r.payload = Bundle /\ r.user = user

(* C6 as stated: after a rejected load the session is in the state that    *)
(* follows the load of an absent document, saving enabled included.        *)
C6_FailureLikeAbsent ==
  lastEvent = "LoadReject" =>
    (Bundle = getEmptyData /\ ~isLoading /\ hasLoadedRef /\ canSave)

(* C6 amended: a rejected load and the load of an absent document both     *)
(* leave six empty collections and a cleared loading indicator, but the    *)
(* rejected load leaves saving disabled (canSave false, no timer armed)    *)
(* while the absent document leaves it enabled.                            *)
C6_FailureEmptyNoSave ==
  /\ lastEvent = "LoadReject" =>
       /\ Bundle = getEmptyData /\ ~isLoading /\ hasLoadedRef
       /\ ~canSave /\ timers = {}
  /\ (lastEvent = "LoadResolve" /\ ~remote[user].exists) =>
       /\ Bundle = getEmptyData /\ ~isLoading /\ hasLoadedRef
       /\ canSave

C6_Witness == lastEvent = "LoadReject" /\ user # NoUser /\ ~canSave

(* C8: a rejected save changes none of the collections, flags or timers,   *)
(* so no retry is scheduled; once the load of a session has settled, only  *)
(* a mutation arms a timer.                                                *)
C8_FailedSaveSwallowed ==
  [][ /\ lastEvent' = "SaveReject" =>
           UNCHANGED <<user, storeVars, flagVars, timerVars, memoVars>>
      /\ (ArmedNow # {} /\ user # NoUser /\ hasLoadedRef /\ ~isLoading) =>
           lastEvent' \in MutationEvents ]_vars

C8_Witness ==
  /\ lastEvent = "SaveReject" /\ user # NoUser /\ canSave /\ timers = {}
  /\ dirty

(* ---------------- load and save over every document shape ------------- *)
TwoGoals ==
  <<Goal(1, "g1", FALSE, Noon(Today), "Trabalho", FALSE),
    Goal(2, "g2", TRUE, Noon(Today - 1), NoCategory, TRUE)>>
TwoTasks ==
  <<Task(3, "t1", TRUE, Noon(Today), NoCategory, FALSE),
    Task(4, "t2", FALSE, Noon(Today - 1), "Outros", FALSE)>>
TwoNotes == <<"n2", "n1">>
TwoEdges == <<StrategyEdge(14, 12, 13, 11), StrategyEdge(15, 13, 12, 11)>>

FieldShapes(array) == {Arr(<<>>), Arr(array), Missing, NotArray}

LoadDocs ==
  {AbsentDoc} \cup
  {Doc(g, t, n, p, b, e, 7) :
     g \in FieldShapes(TwoGoals), t \in FieldShapes(TwoTasks),
     n \in FieldShapes(TwoNotes), p \in FieldShapes(SampleProjects),
     b \in FieldShapes(SampleBlocks), e \in FieldShapes(TwoEdges)}

InitLoad ==
  /\ LoggedOut
  /\ remote \in {[pascoto |-> d, yasmin |-> AbsentDoc] : d \in LoadDocs}

(* One session without any mutation: load, debounce, save.                 *)
NextLoad ==
  \/ Login("pascoto")
  \/ \E l \in loads : LoadResolve(l)
  \/ \E l \in loads : LoadReject(l)
  \/ Tick
  \/ \E t \in timers : TimerFire(t)
  \/ \E r \in saves : SaveResolve(r)
  \/ \E r \in saves : SaveReject(r)

SpecLoad == InitLoad /\ [][NextLoad]_vars

WellFormed(d) == d.exists /\ \A f \in Fields : isArray(d[f])

(* C7: whatever the shape of the document, a resolved fetch yields a       *)
(* bundle: six empty collections for an absent document; otherwise each    *)
(* collection is the stored field when that is an array and empty when the *)
(* field is missing or not an array.                                       *)
C7_LoadNeverThrows ==
  /\ (\E l \in loads : l.isMounted) => ENABLED (\E l \in loads : LoadResolve(l))
  /\ lastEvent = "LoadResolve" =>
       LET d == remote[user] IN
         \A f \in Fields :
           Bundle[f] = IF d.exists /\ d[f].kind = "array" THEN d[f].val ELSE <<>>

C7_Witness ==
  /\ lastEvent = "LoadResolve"
  /\ remote[user].exists
  /\ remote[user].goals = Arr(TwoGoals) /\ goals = TwoGoals
  /\ remote[user].tasks = NotArray /\ tasks = <<>>
  /\ remote[user].notes = Missing /\ notes = <<>>

(* C9: when a well-formed document is loaded and the unmodified bundle is  *)
(* saved, the request carries, field by field, the stored sequences, and   *)
(* writing it leaves the six stored collections as they were.              *)
C9_RoundTrip ==
  [][ /\ \A r \in IssuedNow :
           WellFormed(remote[r.user]) =>
             \A f \in Fields : r.payload[f] = remote[r.user][f].val
      /\ \A u \in Users :
           WellFormed(remote[u]) =>
             \A f \in Fields : remote'[u][f] = remote[u][f] ]_vars

C9_Witness ==
  /\ lastEvent = "SaveResolve" /\ user = "pascoto"
  /\ remote[user] =
       Doc(Arr(TwoGoals), Arr(TwoTasks), Arr(TwoNotes), Arr(SampleProjects),
           Arr(SampleBlocks), Arr(TwoEdges), 7)
  /\ Bundle = loadUserData(remote[user])

(* ------------------------- the filter engine -------------------------- *)
StoredGoals(id) ==
  {Goal(id, "g", c, Noon(d), cat, daily) :
     c \in BOOLEAN, d \in {Today - 1, Today},
     cat \in {"Trabalho", NoCategory}, daily \in BOOLEAN}

SecondGoals ==
  {Goal(2, "g", FALSE, Noon(Today - 1), NoCategory, TRUE),
   Goal(2, "g", TRUE, Noon(Today), "Trabalho", FALSE)}

FilterGoalLists ==
  {<<>>} \cup {<<a, b>> : a \in StoredGoals(1), b \in SecondGoals}

InitFilter ==
  /\ LoggedOut
  /\ remote \in
       {[pascoto |-> AbsentDoc,
         yasmin |-> Doc(Arr(gs), Arr(<<>>), Arr(<<>>), Arr(<<>>), Arr(<<>>),
                        Arr(<<>>), 0)] : gs \in FilterGoalLists}

FilterDateInputs == {Today - 1, EmptyYmd}
FilterCategoryInputs == {"TUDO", "Trabalho", "Outros"}
FilterStatusInputs == {"TODOS", "PENDENTES", "CONCLUIDOS"}

(* Goal form: category, date input (blank or a day), daily checkbox.       *)
GoalFormInputs == {<<"Outros", EmptyYmd, FALSE>>, <<"Trabalho", Today - 1, TRUE>>}

NextFilter ==
  \/ Login("yasmin")
  \/ \E l \in loads : LoadResolve(l)
  \/ \E type \in {"HOJE", "ONTEM"} : handleQuickDateFilter(type)
  \/ \E v \in FilterDateInputs : SetFilterDate(v)
  \/ \E v \in FilterCategoryInputs : SetFilterCategory(v)
  \/ \E v \in FilterStatusInputs : SetFilterStatus(v)
  \/ \E in \in GoalFormInputs : AddGoal("g", in[1], in[2], in[3])
  \/ \E g \in Range(currentGoals) : ToggleGoal(g)
  \/ \E g \in Range(currentGoals) : DeleteGoal(g)
  \/ RemoveDailyGoals

SpecFilter == InitFilter /\ [][NextFilter]_vars

(* The positions of the goals that the claim says are shown.               *)
C10_Shown ==
  {i \in 1..Len(goals) :
     LET g == goals[i] IN
       /\ g.date.ymd = filterDate \/ g.isDaily
       /\ \/ filterCategory = "TUDO"
          \/ (IF g.category = NoCategory THEN "Outros" ELSE g.category)
               = filterCategory
       /\ \/ filterStatus = "TODOS"
          \/ filterStatus = "CONCLUIDOS" /\ g.completed
          \/ filterStatus = "PENDENTES" /\ ~g.completed}

(* C10: for a selected day, currentGoals lists exactly the goals at the    *)
(* positions C10_Shown, in collection order; a goal that is not daily and  *)
(* is dated before the selected day is not listed.                         *)
C10_FilteredGoals ==
  filterDate \in Days =>
    /\ Len(currentGoals) = Cardinality(C10_Shown)
    /\ \A k \in 1..Len(currentGoals) :
         \E i \in C10_Shown :
           /\ Cardinality({j \in C10_Shown : j < i}) = k - 1
           /\ currentGoals[k] = goals[i]
    /\ \A g \in Range(currentGoals) :
         ~g.isDaily => ~(g.date.ymd < filterDate)

C10_Witness ==
  /\ filterDate = Today /\ filterCategory = "Outros"
  /\ filterStatus = "PENDENTES"
  /\ Len(goals) = 2 /\ Len(currentGoals) = 1
  /\ currentGoals[1] = goals[2] /\ currentGoals[1].isDaily
  /\ ~goals[1].isDaily /\ ~goals[1].completed
  /\ goals[1].date.ymd < filterDate /\ goals[1].category = NoCategory

(* ----------------------- the filter engine, tasks --------------------- *)
StoredTasks(id) ==
  {Task(id, "t", c, Noon(d), cat, daily) :
     c \in BOOLEAN, d \in {Today - 1, Today + 1},
     cat \in {"Trabalho", NoCategory}, daily \in BOOLEAN}

(* The second stored task: one dated today without a time part, one        *)
(* completed two days ago.                                                 *)
SecondTasks ==
  {Task(2, "t", FALSE, DateStr(Today, ""), NoCategory, FALSE),
   Task(2, "t", TRUE, Noon(Today - 2), "Trabalho", FALSE)}

FilterTaskLists ==
  {<<>>} \cup {<<a, b>> : a \in StoredTasks(1), b \in SecondTasks}

InitTasks ==
  /\ LoggedOut
  /\ remote \in
       {[pascoto |-> AbsentDoc,
         yasmin |-> Doc(Arr(<<>>), Arr(ts), Arr(<<>>), Arr(<<>>), Arr(<<>>),
                        Arr(<<>>), 0)] : ts \in FilterTaskLists}

(* Task form: category select, date input (blank or a day), daily checkbox. *)
TaskFormInputs == {<<NoCategory, EmptyYmd, FALSE>>, <<"Trabalho", Today - 1, TRUE>>}

NextTasks ==
  \/ Login("yasmin")
  \/ \E l \in loads : LoadResolve(l)
  \/ \E type \in {"HOJE", "ONTEM"} : handleQuickDateFilter(type)
  \/ \E v \in FilterDateInputs : SetFilterDate(v)
  \/ \E v \in FilterCategoryInputs : SetFilterCategory(v)
  \/ \E v \in FilterStatusInputs : SetFilterStatus(v)
  \/ \E in \in TaskFormInputs : AddTask("t", in[1], in[2], in[3])
  \/ \E t \in Range(currentTasks) : ToggleTask(t)
  \/ \E t \in Range(currentTasks) : DeleteTask(t)
  \/ RemoveDailyTasks

SpecTasks == InitTasks /\ [][NextTasks]_vars

(* The category and status selectors accept the task.                      *)
C11_Selected(t) ==
  /\ \/ filterCategory = "TUDO"
     \/ (IF t.category = NoCategory THEN "Outros" ELSE t.category)
          = filterCategory
  /\ \/ filterStatus = "TODOS"
     \/ filterStatus = "CONCLUIDOS" /\ t.completed
     \/ filterStatus = "PENDENTES" /\ ~t.completed

(* C11: for a selected day D, a task that is not daily and not scheduled   *)
(* on D is listed in currentTasks exactly when it is not completed, its    *)
(* scheduled day is before D and the category and status selectors accept  *)
(* it; so a completed earlier task and a later task are never listed. A    *)
(* task scheduled on D is listed exactly when the selectors accept it,     *)
(* completed or not.                                                       *)
C11_OverdueTasks ==
  filterDate \in Days =>
    \A i \in 1..Len(tasks) :
      LET t == tasks[i]
          listed == \E k \in 1..Len(currentTasks) : currentTasks[k] = t
      IN /\ (~t.isDaily /\ t.scheduledDate.ymd # filterDate) =>
              (listed <=> /\ ~t.completed
                          /\ t.scheduledDate.ymd \in Days
                          /\ t.scheduledDate.ymd < filterDate
                          /\ C11_Selected(t))
         /\ (t.scheduledDate.ymd = filterDate) => (listed <=> C11_Selected(t))

C11_Witness ==
  /\ filterDate = Today /\ Len(tasks) = 2 /\ Len(currentTasks) = 1
  /\ lastEvent = "FilterChange"
  /\ ~tasks[1].isDaily /\ ~tasks[1].completed
  /\ tasks[1].scheduledDate.ymd < filterDate
  /\ currentTasks[1] = tasks[1]
  /\ tasks[2].completed /\ tasks[2].scheduledDate.ymd < filterDate

(* --------------------------- aggregation engine ----------------------- *)
(* The hour of the day at which new Date() is read.                        *)
NowHour == 9

(* date-fns subDays(new Date(), n).                                        *)
subDays(n) == (Today - n) * 24 + NowHour

(* format(day, 'EEE', { locale: ptBR }).toUpperCase()                      *)
WeekdayLabel(day) ==
  <<"DOM", "SEG", "TER", "QUA", "QUI", "SEX", "SAB">>[((day \div 24) % 7) + 1]

toFixed0Truncates(num, den) == ToString((100 * num) \div den)

(* ((num / den) * 100).toFixed(0): the nearest integer, the larger one on  *)
(* a tie, in decimal digits.                                               *)
toFixed0(num, den) == ToString((200 * num + den) \div (2 * den))

(* The snapshot counters handed to DashboardHeader.                        *)
stats ==
  LET done(x) == x.completed
      total == Len(goals) + Len(tasks)
      completed == Len(SelectSeq(goals, done)) + Len(SelectSeq(tasks, done))
  IN [total |-> total,
      completed |-> completed,
      pending |-> total - completed,
      rate |-> IF total # 0 THEN toFixed0(completed, total) ELSE "0"]

isForDayDateOnly(itemDate, day, isDaily) == isSameDay(itemDate, day)

isForDay(itemDate, day, isDaily) == isSameDay(itemDate, day) \/ isDaily

(* The useMemo of the weekly series: one point per day, oldest first.      *)
weeklyStats ==
  LET days == [index \in 1..7 |-> subDays(6 - (index - 1))]
      point(day) ==
        LET goalFor(g) == isForDay(parseISO(g.date), day, g.isDaily)
            taskFor(t) == isForDay(parseISO(t.scheduledDate), day, t.isDaily)
            done(x) == x.completed
            gs == SelectSeq(goals, goalFor)
            ts == SelectSeq(tasks, taskFor)
        IN [day |-> WeekdayLabel(day),
            completed |-> Len(SelectSeq(gs, done)) + Len(SelectSeq(ts, done)),
            total |-> Len(gs) + Len(ts)]
  IN [index \in 1..7 |-> point(days[index])]

StatsGoalLists ==
  {<<>>,
   <<Goal(1, "g", FALSE, Noon(Today - 6), "Trabalho", FALSE),
     Goal(2, "g", TRUE, Noon(Today), NoCategory, FALSE)>>,
   <<Goal(1, "g", TRUE, Noon(Today - 7), "Trabalho", FALSE),
     Goal(2, "g", FALSE, Noon(Today - 1), "Outros", TRUE)>>}

StatsTaskLists ==
  {<<>>,
   <<Task(3, "t", FALSE, Noon(Today - 6), NoCategory, FALSE),
     Task(4, "t", TRUE, DateStr(Today, ""), "Trabalho", FALSE)>>,
   <<Task(3, "t", FALSE, Noon(Today + 1), NoCategory, FALSE),
     Task(4, "t", TRUE, Noon(Today - 1), "Outros", TRUE)>>}

InitStats ==
  /\ LoggedOut
  /\ remote \in
       {[pascoto |-> AbsentDoc,
         yasmin |-> Doc(Arr(gs), Arr(ts), Arr(<<>>), Arr(<<>>), Arr(<<>>),
                        Arr(<<>>), 0)] :
          gs \in StatsGoalLists, ts \in StatsTaskLists}

NextStats ==
  \/ Login("yasmin")
  \/ \E l \in loads : LoadResolve(l)
  \/ \E type \in {"HOJE", "ONTEM"} : handleQuickDateFilter(type)
  \/ SetFilterDate(Today - 6)
  \/ AddGoal("g", "Outros", EmptyYmd, FALSE)
  \/ AddTask("t", NoCategory, EmptyYmd, FALSE)
  \/ \E g \in Range(currentGoals) : ToggleGoal(g)
  \/ \E g \in Range(currentGoals) : DeleteGoal(g)
  \/ \E t \in Range(currentTasks) : ToggleTask(t)
  \/ \E t \in Range(currentTasks) : DeleteTask(t)

SpecStats == InitStats /\ [][NextStats]_vars

(* The goals and the tasks, as (collection, position) pairs, that count    *)
(* for the day with number d.                                              *)
C12_Counted(d) ==
  {<<"goal", i>> : i \in {j \in 1..Len(goals) :
                            goals[j].date.ymd = d \/ goals[j].isDaily}}
  \cup
  {<<"task", i>> : i \in {j \in 1..Len(tasks) :
                            tasks[j].scheduledDate.ymd = d \/ tasks[j].isDaily}}

C12_Done(c) == IF c[1] = "goal" THEN goals[c[2]].completed
               ELSE tasks[c[2]].completed

(* C12: the weekly series has 7 points; point i belongs to the day         *)
(* Today - 7 + i (oldest first), its total is the number of goals and      *)
(* tasks dated on that day or marked daily, its completed value the number *)
(* of those that are completed, 0 <= completed <= total, and all points    *)
(* are (0, 0) when both collections are empty.                             *)
C12_WeeklySeries ==
  /\ Len(weeklyStats) = 7
  /\ \A i \in 1..7 :
       LET d == Today - 7 + i
           pt == weeklyStats[i]
       IN /\ pt.day = WeekdayLabel(d * 24)
          /\ pt.total = Cardinality(C12_Counted(d))
          /\ pt.completed = Cardinality({c \in C12_Counted(d) : C12_Done(c)})
          /\ 0 <= pt.completed /\ pt.completed <= pt.total
          /\ (goals = <<>> /\ tasks = <<>>) => (pt.total = 0 /\ pt.completed = 0)

C12_Witness ==
  /\ lastEvent = "ToggleGoal"
  /\ Len(goals) = 2 /\ Len(tasks) = 2
  /\ goals[1].date.ymd = Today - 7 /\ goals[2].isDaily
  /\ weeklyStats[1].total = 2 /\ weeklyStats[1].completed = 1
  /\ weeklyStats[6].total = 1 /\ weeklyStats[6].completed = 1
  /\ weeklyStats[7].total = 2 /\ weeklyStats[7].completed = 2

(* C13: total = |goals| + |tasks|; completed counts the completed goals    *)
(* and tasks; pending = total - completed >= 0; rate is "0" when total is  *)
(* 0 and otherwise the decimal string of the integer nearest to            *)
(* 100 * completed / total, which lies in 0..100; 2 of 4 gives "50".       *)
C13_Counters ==
  LET nDone == Cardinality({i \in 1..Len(goals) : goals[i].completed})
               + Cardinality({i \in 1..Len(tasks) : tasks[i].completed})
      n == Len(goals) + Len(tasks)
  IN /\ stats.total = n
     /\ stats.completed = nDone
     /\ stats.pending = n - nDone /\ stats.pending >= 0
     /\ (n = 0) => stats.rate = "0"
     /\ (n > 0) =>
          \E r \in 0..100 :
            /\ stats.rate = ToString(r)
            /\ 2 * (100 * nDone - r * n) <= n
            /\ 2 * (r * n - 100 * nDone) <= n
     /\ (n = 4 /\ nDone = 2) => stats.rate = "50"

C13_Witness ==
  /\ lastEvent = "ToggleTask"
  /\ stats.total = 4 /\ stats.completed = 2 /\ stats.pending = 2
  /\ stats.rate = "50"

(* ------------------------------ navigation ---------------------------- *)
Paths == {"/", "/checklist", "/strategy"}

isPascoto(u) == u = "pascoto"

(* What AppContent renders in its main area for user u at a location.      *)
routeView(u, path) ==
  IF path = "/strategy"
    THEN IF ~isPascoto(u) THEN "Acesso restrito ao Pascoto"
         ELSE "strategy"
  ELSE IF path = "/checklist" THEN "checklist"
  ELSE "dashboard"

(* A render after the location or the open company changed.                *)
ViewChange(name, path, company) ==
  /\ user # NoUser
  /\ pathname' = path /\ activeCompany' = company
  /\ flowSnap' = FlowRender(user, path, company, projects, blocks)
  /\ lastEvent' = name
  /\ UNCHANGED <<user, storeVars, flagVars, timerVars, loads, saves, remote,
                 filterVars, memoVars, dirty, quiet, loadedFor, pendingMut,
                 logins, burst, edits, raced, insight>>

(* A sidebar Link; the strategy Link is rendered for pascoto only.         *)
Navigate(path) ==
  /\ path = "/strategy" => isPascoto(user)
  /\ ViewChange("Navigate", path, activeCompany)

(* 'Abrir workspace' of a company card, and 'Voltar'.                      *)
SetActiveCompany(company) ==
  /\ pathname = "/strategy" /\ isPascoto(user)
  /\ IF company = NoCompany THEN activeCompany # NoCompany
     ELSE activeCompany = NoCompany
  /\ ViewChange("SetActiveCompany", pathname, company)

(* ----------------------------- diagram model -------------------------- *)
NoPosition == [none |-> TRUE]

Position(x, y) == [x |-> x, y |-> y]

DiagramIds ==
  11..(17 + MaxProjects + MaxBlocks + MaxEdges + MaxProjects * MaxBlocks)

(* Every id held by the store or by a block that a mounted node button     *)
(* still refers to, the ids of their projects included.                    *)
usedIds ==
  IdsIn(projects) \cup IdsIn(blocks) \cup IdsIn(edges)
    \cup UNION {IdsIn(flowSnap[pid]) : pid \in DOMAIN flowSnap}
    \cup UNION {{b.projectId : b \in Range(flowSnap[pid])} :
                  pid \in DOMAIN flowSnap}

(* n calls of crypto.randomUUID(): n ids, distinct and unused.             *)
randomUUIDs(n) ==
  LET free == DiagramIds \ usedIds
  IN [k \in 1..n |->
        CHOOSE i \in free : Cardinality({j \in free : j < i}) = k - 1]

(* Array.prototype.sort((a, b) => a.order - b.order): stable.              *)
sortByOrder(bs) ==
  LET before(i, j) ==
        bs[i].order < bs[j].order \/ (bs[i].order = bs[j].order /\ i < j)
      rank(j) == Cardinality({i \in 1..Len(bs) : before(i, j)}) + 1
  IN [k \in 1..Len(bs) |-> bs[CHOOSE j \in 1..Len(bs) : rank(j) = k]]

getProjectBlocks(bs, projectId) ==
  LET own(b) == b.projectId = projectId
  IN sortByOrder(SelectSeq(bs, own))

getProjectEdges(es, projectId) ==
  LET own(e) == e.projectId = projectId
  IN SelectSeq(es, own)

(* The ids of the nodes, and of the block list rows, of a project.         *)
nodeIds(projectId) ==
  {b.id : b \in {x \in Range(blocks) : x.projectId = projectId}}

(* The projects whose panel (buttons, StrategyFlow, block list) is shown.  *)
ShownProjects == {q \in Range(projects) : q.id \in DOMAIN flowSnap}

(* Project form onSubmit.                                                  *)
CreateProject(title, type, createdAt) ==
  /\ isPascoto(user) /\ pathname = "/strategy" /\ activeCompany # NoCompany
  /\ Len(projects) < MaxProjects
  /\ LET new == Project(randomUUIDs(1)[1], title, type, createdAt,
                        activeCompany)
     IN Mutation("CreateProject", [Bundle EXCEPT !.projects = <<new>> \o projects])

inProjectNever(x, projectId) == FALSE

(* b.projectId !== project.id, e.projectId !== project.id                  *)
inProject(x, projectId) == x.projectId = projectId

(* 'Remover' of a project.                                                 *)
DeleteProject(q) ==
  /\ q \in ShownProjects
  /\ LET keepP(x) == x.id # q.id
         keepB(b) == ~inProject(b, q.id)
         keepE(e) == ~inProject(e, q.id)
     IN Mutation("DeleteProject",
                 [Bundle EXCEPT !.projects = SelectSeq(projects, keepP),
                                !.blocks = SelectSeq(blocks, keepB),
                                !.edges = SelectSeq(edges, keepE)])

StepPayload ==
  [title |-> "Nova Etapa", description |-> "Defina a ação", type |-> "funil"]

addBlockToProject(projectId, payload) ==
  LET existing == getProjectBlocks(blocks, projectId)
      nextIndex == Len(existing) + 1
  IN <<StrategyBlock(randomUUIDs(1)[1], payload.title, payload.description,
                     payload.type, nextIndex, projectId,
                     Position(80 + (nextIndex % 4) * 220,
                              80 + (nextIndex \div 4) * 160))>> \o blocks

(* 'Adicionar Etapa'.                                                      *)
AddBlock(q, payload) ==
  /\ q \in ShownProjects
  /\ Len(blocks) < MaxBlocks
  /\ Mutation("AddBlock", [Bundle EXCEPT !.blocks = addBlockToProject(q.id, payload)])

(* Block form onSubmit: the block is stored without a position.            *)
BlockForm(q, title, description, type) ==
  /\ q \in ShownProjects
  /\ Len(blocks) < MaxBlocks
  /\ LET currentCount == Len(getProjectBlocks(blocks, q.id))
         new == StrategyBlock(randomUUIDs(1)[1], title,
                              IF description = "" THEN "Sem descrição"
                              ELSE description,
                              type, currentCount + 1, q.id, NoPosition)
     IN Mutation("BlockForm", [Bundle EXCEPT !.blocks = <<new>> \o blocks])

funnelLinksFan == <<<<1, 2>>, <<1, 3>>, <<1, 4>>>>

(* templateEdges: [0] -> [1], [1] -> [2], [2] -> [3]                       *)
funnelLinks == <<<<1, 2>>, <<2, 3>>, <<3, 4>>>>

addTemplateFunnel(projectId) ==
  LET id == randomUUIDs(7)
      templateBlocks ==
        <<StrategyBlock(id[1], "Atrair", "Anúncios + Conteúdo", "ads", 1,
                        projectId, Position(80, 80)),
          StrategyBlock(id[2], "Capturar", "Landing Page", "lp", 2,
                        projectId, Position(80 + 240, 80)),
          StrategyBlock(id[3], "Nutrir", "Sequência de e-mails", "email", 3,
                        projectId, Position(80 + 480, 80)),
          StrategyBlock(id[4], "Converter", "Checkout + Oferta", "checkout", 4,
                        projectId, Position(80 + 720, 80))>>
      templateEdges ==
        [k \in 1..3 |->
           StrategyEdge(id[4 + k], templateBlocks[funnelLinks[k][1]].id,
                        templateBlocks[funnelLinks[k][2]].id, projectId)]
  IN [blocks |-> templateBlocks \o blocks, edges |-> templateEdges \o edges]

addTemplateStructure(projectId) ==
  LET id == randomUUIDs(6)
      templateBlocks ==
        <<StrategyBlock(id[1], "Vendas", "Processo comercial", "vendas", 1,
                        projectId, Position(80, 80)),
          StrategyBlock(id[2], "Operacional", "Entrega & execução",
                        "operacional", 2, projectId, Position(80, 80 + 180)),
          StrategyBlock(id[3], "Financeiro", "Fluxo de caixa", "financeiro", 3,
                        projectId, Position(80 + 260, 80)),
          StrategyBlock(id[4], "Estratégico", "OKRs e metas", "estrategico", 4,
                        projectId, Position(80 + 260, 80 + 180))>>
      templateEdges ==
        <<StrategyEdge(id[5], templateBlocks[1].id, templateBlocks[3].id, projectId),
          StrategyEdge(id[6], templateBlocks[2].id, templateBlocks[4].id, projectId)>>
  IN [blocks |-> templateBlocks \o blocks, edges |-> templateEdges \o edges]

(* 'Template Funil': setBlocks and setEdges of one click are one render.   *)
TemplateFunnel(q) ==
  /\ q \in ShownProjects
  /\ Len(blocks) + 4 <= MaxBlocks /\ Len(edges) + 3 <= MaxEdges
  /\ LET t == addTemplateFunnel(q.id)
     IN Mutation("TemplateFunnel",
                 [Bundle EXCEPT !.blocks = t.blocks, !.edges = t.edges])

(* 'Template Estrutura'.                                                   *)
TemplateStructure(q) ==
  /\ q \in ShownProjects
  /\ Len(blocks) + 4 <= MaxBlocks /\ Len(edges) + 2 <= MaxEdges
  /\ LET t == addTemplateStructure(q.id)
     IN Mutation("TemplateStructure",
                 [Bundle EXCEPT !.blocks = t.blocks, !.edges = t.edges])

CopyOffset == 30

(* The copy that onDuplicateNode builds from its target.                   *)
duplicateOf(target, id) ==
  [target EXCEPT
     !.id = id,
     !.title = target.title \o " (Cópia)",
     !.position = IF target.position # NoPosition
                    THEN Position(target.position.x + CopyOffset,
                                  target.position.y + CopyOffset)
                    ELSE NoPosition]

(* 'Duplicar' on a node of q's StrategyFlow: the button calls the          *)
(* onDuplicateNode of the flow's first render, whose blocks are            *)
(* flowSnap[q.id].                                                         *)
DuplicateNode(q, nodeId) ==
  /\ q \in ShownProjects
  /\ nodeId \in nodeIds(q.id)
  /\ LET closed == flowSnap[q.id]
         found == {i \in 1..Len(closed) : closed[i].id = nodeId}
     IN IF found = {}
          THEN /\ lastEvent' = "DuplicateNode"
               /\ UNCHANGED <<user, storeVars, flagVars, timerVars, loads,
                              saves, remote, filterVars, memoVars, dirty,
                              quiet, loadedFor, pendingMut, logins, burst,
                              edits, raced,
                              viewVars, insight>>
          ELSE LET target == closed[CHOOSE i \in found : \A j \in found : i <= j]
               IN /\ Len(closed) < MaxBlocks
                  /\ Mutation("DuplicateNode",
                       [Bundle EXCEPT !.blocks =
                          <<duplicateOf(target, randomUUIDs(1)[1])>> \o closed])

(* The nodes StrategyFlow derives from its blocks prop.                    *)
nodes(bs) ==
  [i \in 1..Len(bs) |->
     [id |-> bs[i].id,
      position |-> IF bs[i].position # NoPosition THEN bs[i].position
                   ELSE Position(60 + ((i - 1) % 3) * 240,
                                 60 + ((i - 1) \div 3) * 160)]]

(* reactflow applyNodeChanges for one change.                              *)
applyNodeChanges(change, ns) ==
  IF change.type = "position"
    THEN [i \in 1..Len(ns) |->
            IF ns[i].id = change.id
              THEN [ns[i] EXCEPT !.position = change.position] ELSE ns[i]]
  ELSE IF change.type = "remove"
    THEN LET keep(n) == n.id # change.id IN SelectSeq(ns, keep)
  ELSE ns

(* StrategyFlow.handleNodesChange -> onBlocksChange of project q.          *)
NodesChange(q, change) ==
  /\ q \in ShownProjects
  /\ nodeIds(q.id) # {}
  /\ change.type # "dimensions" => change.id \in nodeIds(q.id)
  /\ \E own \in {getProjectBlocks(blocks, q.id)} :
     \E updatedNodes \in {applyNodeChanges(change, nodes(own))} :
       LET nextBlocks ==
             [i \in 1..Len(own) |->
                LET at == {k \in 1..Len(updatedNodes) :
                             updatedNodes[k].id = own[i].id}
                IN IF at = {} THEN own[i]
                   ELSE [own[i] EXCEPT !.position =
                           updatedNodes[CHOOSE k \in at : TRUE].position]]
           other(b) == b.projectId # q.id
       IN Mutation("NodesChange",
               [Bundle EXCEPT !.blocks = SelectSeq(blocks, other) \o nextBlocks])

(* `edge_${source}_${target}_${Date.now()}`                                *)
edgeId(source, target, now) ==
  1000000 + source * 10000 + target * 100 + now

(* AppContent onEdgesChange of project q.                                  *)
onEdgesChange(q, updatedEdges) ==
  LET other(e) == e.projectId # q.id
  IN SelectSeq(edges, other)
       \o [i \in 1..Len(updatedEdges) |->
             [updatedEdges[i] EXCEPT !.projectId = q.id]]

(* StrategyFlow.handleConnect.                                             *)
Connect(q, source, target, now) ==
  /\ q \in ShownProjects
  /\ Len(edges) < MaxEdges
  /\ source \in nodeIds(q.id) /\ target \in nodeIds(q.id)
  /\ \E own \in {getProjectBlocks(blocks, q.id)} :
       LET newEdge == StrategyEdge(edgeId(source, target, now), source, target,
                                   own[1].projectId)
       IN Mutation("Connect",
               [Bundle EXCEPT !.edges =
                  onEdgesChange(q, getProjectEdges(edges, q.id) \o <<newEdge>>)])

(* connection.source or connection.target is null.                        *)
NoHandle == 0

(* handleConnect with a missing end: the early return.                     *)
ConnectIgnored(q, source, target) ==
  /\ q \in ShownProjects
  /\ source = NoHandle \/ target = NoHandle
  /\ lastEvent' = "ConnectIgnored"
  /\ UNCHANGED <<user, storeVars, flagVars, timerVars, loads, saves, remote,
                 filterVars, memoVars, dirty, quiet, loadedFor, pendingMut,
                 logins, burst, edits, raced, viewVars, insight>>

(* StrategyFlow.handleEdgesChange for the removal of one edge.             *)
EdgesChange(q, removedId) ==
  /\ q \in ShownProjects
  /\ LET own == getProjectEdges(edges, q.id)
         keep(e) == e.id # removedId
     IN /\ removedId \in IdsIn(own)
        /\ Mutation("EdgesChange",
             [Bundle EXCEPT !.edges = onEdgesChange(q, SelectSeq(own, keep))])

touchesAsSource(e, blockId) == e.source = blockId

(* e.source !== block.id && e.target !== block.id, negated                 *)
touches(e, blockId) == e.source = blockId \/ e.target = blockId

(* 'Excluir' in the block list of project q.                               *)
DeleteBlock(q, block) ==
  /\ q \in ShownProjects
  /\ block \in Range(blocks) /\ block.id \in nodeIds(q.id)
  /\ LET keepB(b) == b.id # block.id
         keepE(e) == ~touches(e, block.id)
     IN Mutation("DeleteBlock",
                 [Bundle EXCEPT !.blocks = SelectSeq(blocks, keepB),
                                !.edges = SelectSeq(edges, keepE)])

(* ------------------------ the diagram specification ------------------- *)
DropPosition == Position(500, 300)

NodeChanges(q) ==
  {[type |-> "dimensions"]}
    \cup {[type |-> "position", id |-> i, position |-> DropPosition] :
            i \in nodeIds(q.id)}
    \cup {[type |-> "remove", id |-> i] :
            i \in nodeIds(q.id)}

Clock == {1}

(* Two projects of one company, each with a two-step flow; block 13 was    *)
(* made by the block form and has never been moved.                        *)
TwoProjectDoc ==
  Doc(Arr(<<>>), Arr(<<>>), Arr(<<>>),
      Arr(<<Project(11, "p1", "funil", "c1", "Pascoto100k"),
            Project(15, "p2", "estrutura", "c2", "Pascoto100k")>>),
      Arr(<<StrategyBlock(16, "b3", "d3", "vendas", 1, 15, Position(80, 80)),
            StrategyBlock(13, "b2", "d2", "lp", 2, 11, NoPosition),
            StrategyBlock(17, "b4", "d4", "financeiro", 2, 15, Position(340, 80)),
            StrategyBlock(12, "b1", "d1", "ads", 1, 11, Position(80, 80))>>),
      Arr(<<StrategyEdge(14, 12, 13, 11), StrategyEdge(18, 16, 17, 15)>>), 7)

InitDiagram ==
  /\ LoggedOut
  /\ remote = [pascoto |-> TwoProjectDoc, yasmin |-> AbsentDoc]

NextDiagram ==
  \/ Login("pascoto")
  \/ \E l \in loads : LoadResolve(l)
  \/ Navigate("/strategy")
  \/ SetActiveCompany("Pascoto100k")
  \/ CreateProject("p3", "funil", "c3")
  \/ \E q \in ShownProjects : DeleteProject(q)
  \/ \E q \in ShownProjects : AddBlock(q, StepPayload)
  \/ \E q \in ShownProjects : BlockForm(q, "b5", "", "estrategico")
  \/ \E q \in ShownProjects : TemplateFunnel(q)
  \/ \E q \in ShownProjects : TemplateStructure(q)
  \/ \E q \in ShownProjects : \E i \in IdsIn(blocks) : DuplicateNode(q, i)
  \/ \E q \in ShownProjects : \E ch \in NodeChanges(q) : NodesChange(q, ch)
  \/ \E q \in ShownProjects : \E i, j \in IdsIn(blocks) : \E now \in Clock :
       Connect(q, i, j, now)
  \/ \E q \in ShownProjects : \E i \in IdsIn(edges) : EdgesChange(q, i)
  \/ \E q \in ShownProjects : \E b \in Range(blocks) : DeleteBlock(q, b)

SpecDiagram == InitDiagram /\ [][NextDiagram]_vars

(* ------------------------ properties of the diagram ------------------- *)
(* C14: deleting a block removes exactly that block and every edge, of     *)
(* whatever project, whose source or target is the block's id; the other   *)
(* blocks, the edges not touching it and the projects stay as they were,   *)
(* in their order.                                                         *)
C14_DeleteBlock ==
  [][lastEvent' = "DeleteBlock" =>
       \E b \in Range(blocks) :
         LET otherBlock(x) == x # b
             apart(e) == e.source # b.id /\ e.target # b.id
         IN /\ blocks' = SelectSeq(blocks, otherBlock)
            /\ Len(blocks') = Len(blocks) - 1
            /\ edges' = SelectSeq(edges, apart)
            /\ projects' = projects]_vars

(* Block 13, the target of edge 14, was deleted: the edge went with it,    *)
(* block 12 and the other project's flow remain.                           *)
C14_Witness ==
  /\ lastEvent = "DeleteBlock"
  /\ IdsIn(blocks) = {12, 16, 17}
  /\ IdsIn(edges) = {18}
  /\ Len(projects) = 2

(* C15: deleting a project removes the project, its blocks and its edges;  *)
(* the other projects, and the blocks and edges of other projects, stay    *)
(* as they were.                                                           *)
C15_DeleteProject ==
  [][lastEvent' = "DeleteProject" =>
       \E q \in Range(projects) :
         LET otherProject(x) == x # q
             elsewhere(x) == x.projectId # q.id
         IN /\ projects' = SelectSeq(projects, otherProject)
            /\ Len(projects') = Len(projects) - 1
            /\ blocks' = SelectSeq(blocks, elsewhere)
            /\ edges' = SelectSeq(edges, elsewhere)]_vars

(* Project 11 was deleted with its two blocks and its edge; project 15     *)
(* keeps its flow.                                                         *)
C15_Witness ==
  /\ lastEvent = "DeleteProject"
  /\ IdsIn(projects) = {15}
  /\ IdsIn(blocks) = {16, 17}
  /\ IdsIn(edges) = {18}

(* C16: duplicating a block of the store adds exactly one block, with an   *)
(* id no entity of the store carries, the original's title followed by    *)
(* the copy marker, the original's position moved by the copy offset, and  *)
(* the original's description, type, order and projectId; every block of   *)
(* the store, every edge and every project stays as it was.                *)
C16_Duplicate ==
  [][lastEvent' = "DuplicateNode" =>
       \E b \in Range(blocks) : \E c \in Range(blocks') :
         /\ c.id \notin IdsIn(projects) \cup IdsIn(blocks) \cup IdsIn(edges)
         /\ c.title = b.title \o " (Cópia)"
         /\ b.position # NoPosition /\ c.position # NoPosition
         /\ c.position = Position(b.position.x + CopyOffset,
                                  b.position.y + CopyOffset)
         /\ CopyOffset # 0
         /\ c.description = b.description /\ c.type = b.type
         /\ c.order = b.order /\ c.projectId = b.projectId
         /\ Range(blocks') = Range(blocks) \cup {c}
         /\ Len(blocks') = Len(blocks) + 1
         /\ edges' = edges
         /\ projects' = projects]_vars

(* C17: the funnel template puts, in one step, four blocks in front of     *)
(* the blocks and three edges in front of the edges, all of one project    *)
(* of the store and with unused, distinct ids; the edges chain the blocks  *)
(* first -> second -> third -> fourth; the save armed by that step carries *)
(* both the blocks and the edges.                                          *)
C17_FunnelAtomic ==
  [][lastEvent' = "TemplateFunnel" =>
       /\ Len(blocks') = Len(blocks) + 4
       /\ Len(edges') = Len(edges) + 3
       /\ SubSeq(blocks', 5, Len(blocks')) = blocks
       /\ SubSeq(edges', 4, Len(edges')) = edges
       /\ projects' = projects
       /\ \E q \in Range(projects) :
            /\ \A k \in 1..4 : blocks'[k].projectId = q.id
            /\ \A k \in 1..3 : edges'[k].projectId = q.id
       /\ LET fresh == {blocks'[k].id : k \in 1..4} \cup {edges'[k].id : k \in 1..3}
          IN /\ Cardinality(fresh) = 7
             /\ fresh \cap (IdsIn(projects) \cup IdsIn(blocks) \cup IdsIn(edges)) = {}
       /\ \A k \in 1..3 : /\ edges'[k].source = blocks'[k].id
                           /\ edges'[k].target = blocks'[k + 1].id
       /\ \A t \in timers' : /\ t.payload.blocks = blocks'
                             /\ t.payload.edges = edges']_vars

(* The funnel was put into project 15 in front of its two blocks, and      *)
(* the debounced save of that step is armed.                               *)
C17_Witness ==
  /\ lastEvent = "TemplateFunnel"
  /\ Len(blocks) = 6 /\ Len(edges) = 4
  /\ blocks[5].projectId = 15 /\ blocks[1].title = "Atrair"
  /\ blocks[1].projectId = 15 /\ blocks[4].title = "Converter"
  /\ edges[3].source = blocks[3].id /\ edges[3].target = blocks[4].id
  /\ \E t \in timers : t.payload.blocks = blocks /\ t.payload.edges = edges

(* C18: every block and every edge of the store belongs to a project of    *)
(* the store.                                                              *)
C18_Ownership ==
  /\ \A b \in Range(blocks) : b.projectId \in IdsIn(projects)
  /\ \A e \in Range(edges) : e.projectId \in IdsIn(projects)

(* ------------------------ the access specification -------------------- *)
(* Sessions of both users with navigation in between; the HashRouter      *)
(* wraps Login and AppContent alike, so the location outlives a session.   *)
NextAccess ==
  \/ \E u \in Users : Login(u)
  \/ Logout
  \/ \E l \in loads : LoadResolve(l)
  \/ \E path \in Paths : Navigate(path)
  \/ \E c \in Companies \cup {NoCompany} : SetActiveCompany(c)

SpecAccess == Init /\ [][NextAccess]_vars

(* C19: pascoto can reach the strategy view; for yasmin the strategy       *)
(* editor is never rendered, and right after yasmin logged in the          *)
(* standard dashboard is what is shown, whatever location the session      *)
(* before left behind.                                                     *)
C19_StrategyAccess ==
  /\ user = "pascoto" => ENABLED Navigate("/strategy")
  /\ user = "yasmin" => routeView(user, pathname) # "strategy"
  /\ (user = "yasmin" /\ lastEvent = "Login") =>
       routeView(user, pathname) = "dashboard"

(* ------------------------------ AI insight ---------------------------- *)
TextFallback == "Continue focado em seus objetivos!"

CatchFallback == "Mantenha a disciplina para alcançar suas metas."

(* The task lists handed to getProductivityInsight.                        *)
PromptTasks ==
  UNION {[1..n -> [title : {"a", "b"}, completed : BOOLEAN]] :
           n \in 0..MaxPromptTasks}

(* totalCount, completedCount and taskList of the prompt.                  *)
prompt(ts) ==
  [totalCount |-> Len(ts),
   completedCount |-> Cardinality({i \in 1..Len(ts) : ts[i].completed}),
   taskList |-> [i \in 1..Len(ts) |->
                   <<ts[i].title,
                     IF ts[i].completed THEN "Concluída" ELSE "Pendente">>]]

(* What new GoogleGenAI({ apiKey }) may do, and how the request may end:   *)
(* a response with text, a response without text, or a rejection.          *)
ConstructorOutcomes == {"ok", "throws"}

RequestOutcomes ==
  {[kind |-> "text", text |-> "Bom trabalho."], [kind |-> "text", text |-> ""],
   [kind |-> "rejects"]}

InsightFrame ==
  UNCHANGED <<user, storeVars, flagVars, timerVars, loads, saves, remote,
              filterVars, memoVars, histVars, viewVars>>

(* The call up to its await: the client is constructed outside the try,    *)
(* so a throwing constructor rejects the promise of the async function.    *)
getProductivityInsight(ts, constructed) ==
  /\ insight.pc = "idle"
  /\ insight' = IF constructed = "throws"
                  THEN [pc |-> "rejected", requests |-> 0, prompt |-> prompt(ts),
                        failure |-> "construction"]
                  ELSE [pc |-> "awaiting", requests |-> 1, prompt |-> prompt(ts)]
  /\ InsightFrame

(* response.text || TextFallback, and the catch clause.                    *)
insightOf(outcome) ==
  IF outcome.kind = "rejects" THEN CatchFallback
  ELSE IF outcome.text = "" THEN TextFallback
  ELSE outcome.text

(* The generateContent request settles and the function returns.           *)
generateContentSettles(outcome) ==
  /\ insight.pc = "awaiting"
  /\ insight' = [pc |-> "resolved", requests |-> insight.requests,
                 prompt |-> insight.prompt,
                 failure |-> IF outcome.kind = "rejects" THEN "request"
                             ELSE IF outcome.text = "" THEN "response"
                             ELSE "none",
                 result |-> insightOf(outcome)]
  /\ InsightFrame

NextInsight ==
  \/ \E ts \in PromptTasks : \E c \in ConstructorOutcomes :
       getProductivityInsight(ts, c)
  \/ \E o \in RequestOutcomes : generateContentSettles(o)

SpecInsight == Init /\ [][NextInsight]_vars

(* C20: a call never rejects; it resolves to a non-empty string; after a   *)
(* failure of the construction, the request or the response it resolves    *)
(* to the fixed fallback string; it issues at most one request.            *)
C20_InsightFallback ==
  /\ insight.pc # "rejected"
  /\ insight.pc = "resolved" =>
       /\ insight.result # ""
       /\ insight.failure # "none" => insight.result = CatchFallback
  /\ insight.pc # "idle" => insight.requests <= 1

(* C21: a block added to a project, by 'Adicionar Etapa' or by the block   *)
(* form, gets an order greater than the order of every block the project   *)
(* already has, and is the last block of the project's sorted sequence.    *)
C21_AddBlockLast ==
  [][lastEvent' \in {"AddBlock", "BlockForm"} =>
       \E c \in Range(blocks') :
         /\ c.id \notin IdsIn(blocks)
         /\ \A b \in Range(blocks) : b.projectId = c.projectId => c.order > b.order
         /\ \E sorted \in {getProjectBlocks(blocks', c.projectId)} :
              sorted[Len(sorted)] = c]_vars

(* ------------------------ the connect specification ------------------- *)
(* Date.now() is wall-clock time in milliseconds: two calls may return     *)
(* the same value.                                                         *)
ConnectClock == {1, 2}

NextConnect ==
  \/ Login("pascoto")
  \/ \E l \in loads : LoadResolve(l)
  \/ Navigate("/strategy")
  \/ SetActiveCompany("Pascoto100k")
  \/ \E q \in ShownProjects : \E i, j \in IdsIn(blocks) :
       \E now \in ConnectClock : Connect(q, i, j, now)
  \/ \E q \in ShownProjects : \E i \in IdsIn(blocks) :
       ConnectIgnored(q, i, NoHandle) \/ ConnectIgnored(q, NoHandle, i)
  \/ \E q \in ShownProjects : \E i \in IdsIn(edges) : EdgesChange(q, i)

SpecConnect == InitDiagram /\ [][NextConnect]_vars

(* C22: a connection with both ends adds exactly one edge, from a node of  *)
(* an open project to a node of that project, carrying that project's id   *)
(* and an id no edge of the store has; every edge of the store is kept.    *)
(* A connection with a missing end changes nothing.                        *)
C22_ConnectFresh ==
  [][/\ lastEvent' = "ConnectIgnored" =>
          edges' = edges /\ blocks' = blocks /\ projects' = projects
     /\ lastEvent' = "Connect" =>
          \E k \in 1..Len(edges') :
            LET e == edges'[k]
                rest == [i \in 1..(Len(edges') - 1) |->
                           IF i < k THEN edges'[i] ELSE edges'[i + 1]]
                count(es, x) == Cardinality({i \in 1..Len(es) : es[i] = x})
            IN /\ e.id \notin IdsIn(edges)
               /\ e.projectId \in IdsIn(projects)
               /\ e.source \in nodeIds(e.projectId)
               /\ e.target \in nodeIds(e.projectId)
               /\ Len(rest) = Len(edges)
               /\ \A x \in Range(edges) : count(rest, x) = count(edges, x)
               /\ blocks' = blocks /\ projects' = projects]_vars

(* ------------------------------ item edits ---------------------------- *)
(* A text typed into the date prompt that is no date.                      *)
NotADate == 99

(* format(parseISO(date), ...): date-fns throws a RangeError on an         *)
(* Invalid Date. ChecklistItem formats the date of every listed item, so   *)
(* the lists render only if every listed item has a valid date.            *)
ListsRender ==
  /\ \A g \in Range(currentGoals) : parseISO(g.date) # Invalid
  /\ \A t \in Range(currentTasks) : parseISO(t.scheduledDate) # Invalid

(* The date the edit prompts store: the trimmed input, or the old date.    *)
editedDate(old, dateInput) ==
  Noon(IF dateInput = EmptyYmd THEN old.ymd ELSE dateInput)

(* editGoal with a non-empty title and no prompt cancelled.                *)
EditGoal(g, title, dateInput, categoryInput, isDaily) ==
  /\ g \in Range(currentGoals)
  /\ parseISO(g.date) # Invalid
  /\ LET f(x) == IF x.id = g.id
                   THEN [x EXCEPT !.title = title,
                                  !.date = editedDate(g.date, dateInput),
                                  !.category = IF categoryInput = ""
                                                 THEN g.category
                                                 ELSE categoryInput,
                                  !.isDaily = isDaily]
                   ELSE x
     IN Mutation("EditGoal", [Bundle EXCEPT !.goals = MapSeq(goals, f)])

(* editTask with a non-empty title and no prompt cancelled.                *)
EditTask(t, title, dateInput, categoryInput, isDaily) ==
  /\ t \in Range(currentTasks)
  /\ parseISO(t.scheduledDate) # Invalid
  /\ LET f(x) == IF x.id = t.id
                   THEN [x EXCEPT !.title = title,
                                  !.scheduledDate =
                                     editedDate(t.scheduledDate, dateInput),
                                  !.category = IF categoryInput = ""
                                                 THEN t.category
                                                 ELSE categoryInput,
                                  !.isDaily = isDaily]
                   ELSE x
     IN Mutation("EditTask", [Bundle EXCEPT !.tasks = MapSeq(tasks, f)])

(* The handlers of goals and tasks; none can run once a render threw.      *)
NextEdit ==
  \/ ListsRender /\ Login("pascoto")
  \/ ListsRender /\ \E l \in loads : LoadResolve(l)
  \/ ListsRender /\ \E d \in {EmptyYmd, Today - 1, Today} : SetFilterDate(d)
  \/ ListsRender /\ \E c \in {"TUDO", "Trabalho"} : SetFilterCategory(c)
  \/ ListsRender /\ \E daily \in BOOLEAN : AddGoal("g", "Outros", EmptyYmd, daily)
  \/ ListsRender /\ \E daily \in BOOLEAN : AddTask("t", NoCategory, EmptyYmd, daily)
  \/ ListsRender /\ \E g \in Range(currentGoals) :
       \E d \in {EmptyYmd, Today - 1, NotADate} : \E c \in {"", "Outros"} :
         \E daily \in BOOLEAN : EditGoal(g, "e", d, c, daily)
  \/ ListsRender /\ \E t \in Range(currentTasks) :
       \E d \in {EmptyYmd, Today - 1, NotADate} : \E c \in {"", "Outros"} :
         \E daily \in BOOLEAN : EditTask(t, "e", d, c, daily)
  \/ ListsRender /\ \E g \in Range(currentGoals) : ToggleGoal(g)
  \/ ListsRender /\ \E g \in Range(currentGoals) : DeleteGoal(g)
  \/ ListsRender /\ \E t \in Range(currentTasks) : ToggleTask(t)
  \/ ListsRender /\ \E t \in Range(currentTasks) : DeleteTask(t)

SpecEdit == Init /\ [][NextEdit]_vars

(* C23: while the lists render, every weekly point counts only goals and   *)
(* tasks whose stored date is a valid date.                                *)
C23_InvalidDateNotCounted ==
  ListsRender =>
    \A i \in 1..7 :
      LET day == subDays(6 - (i - 1))
          goalFor(g) == /\ parseISO(g.date) # Invalid
                        /\ (isSameDay(parseISO(g.date), day) \/ g.isDaily)
          taskFor(t) == /\ parseISO(t.scheduledDate) # Invalid
                        /\ (isSameDay(parseISO(t.scheduledDate), day) \/ t.isDaily)
      IN weeklyStats[i].total
           = Len(SelectSeq(goals, goalFor)) + Len(SelectSeq(tasks, taskFor))

(* C24: every goal and every task of the filtered lists has a stored date  *)
(* that is a valid date, so the lists render.                              *)
C24_ListedDatesValid == ListsRender

(* ------------------- the three-collection AppContent ------------------ *)
(* The AppContent that keeps goals, tasks and notes only: no canSave      *)
(* flag, no strategy collections; they stay at their mount values here.    *)
getEmptyData3 == [goals |-> <<>>, tasks |-> <<>>, notes |-> <<>>]

loadUserData3(d) ==
  IF ~d.exists THEN getEmptyData3
  ELSE [goals |-> Coerce(d.goals), tasks |-> Coerce(d.tasks),
        notes |-> Coerce(d.notes)]

(* setDoc(ref, payload, {merge: true}) with the three-field payload.       *)
setDocMerge3(d, payload) ==
  [d EXCEPT !.exists = TRUE,
            !.goals = Arr(payload.goals), !.tasks = Arr(payload.tasks),
            !.notes = Arr(payload.notes)]

Bundle3 == [goals |-> goals, tasks |-> tasks, notes |-> notes]

applyFilters3(items, dateKey, fDate, fCategory, fStatus) ==
  LET keep(item) ==
        LET itemDate == parseISO(item[dateKey])
            matchesDate == isSameDay(itemDate, parseISO(DateStr(fDate, "")))
            matchesCategory == fCategory = "TUDO" \/ itemCategory(item) = fCategory
        IN matchesDate /\ matchesCategory /\ matchesStatus(item, fStatus)
  IN SelectSeq(items, keep)

(* useMemo(() => applyFilters(items, dateKey), [items, filterDate,         *)
(* filterCategory]): the callback of the current render runs only when one *)
(* of the three dependencies changed, otherwise the cached list is kept.   *)
useMemo3(cached, items, dateKey, itemsSet, fDate, fCategory, fStatus) ==
  IF itemsSet \/ fDate # filterDate \/ fCategory # filterCategory
    THEN applyFilters3(items, dateKey, fDate, fCategory, fStatus)
    ELSE cached

(* The save effect: if (!hasLoadedRef.current || isLoading) return;        *)
SaveEffect3(u, b, hl, il) == SaveEffect(u, b, hl, il, TRUE)

(* A render after setGoals / setTasks / setNotes.                          *)
Render3(b, goalsSet, tasksSet, hl, il) ==
  /\ goals' = b.goals /\ tasks' = b.tasks /\ notes' = b.notes
  /\ currentGoals' = useMemo3(currentGoals, b.goals, "date", goalsSet,
                              filterDate, filterCategory, filterStatus)
  /\ currentTasks' = useMemo3(currentTasks, b.tasks, "scheduledDate", tasksSet,
                              filterDate, filterCategory, filterStatus)
  /\ SaveEffect3(user, b, hl, il)

Mutation3(name, b, goalsSet, tasksSet) ==
  /\ user # NoUser
  /\ Render3(b, goalsSet, tasksSet, hasLoadedRef, isLoading)
  /\ lastEvent' = name
  /\ dirty' = TRUE
  /\ quiet' = 0
  /\ pendingMut' = (loadedFor = user)
  /\ burst' = IF timers = {} THEN 1 ELSE IF burst < 2 THEN burst + 1 ELSE 2
  /\ raced' = isLoading
  /\ UNCHANGED <<user, projects, blocks, edges, flagVars, loads, saves,
                 remote, filterVars, loadedFor, logins, edits, viewVars,
                 insight>>

ToggleGoal3(g) ==
  /\ g \in Range(currentGoals)
  /\ LET f(x) == IF x.id = g.id THEN toggle(x) ELSE x
     IN Mutation3("ToggleGoal", [Bundle3 EXCEPT !.goals = MapSeq(goals, f)],
                  TRUE, FALSE)

ToggleTask3(t) ==
  /\ t \in Range(currentTasks)
  /\ LET f(x) == IF x.id = t.id THEN toggle(x) ELSE x
     IN Mutation3("ToggleTask", [Bundle3 EXCEPT !.tasks = MapSeq(tasks, f)],
                  FALSE, TRUE)

(* A filter control changes: the memos follow, the save effect does not    *)
(* run since none of its dependencies changed.                             *)
FilterChange3(fDate, fCategory, fStatus, tab) ==
  /\ user # NoUser
  /\ <<fDate, fCategory, fStatus, tab>>
       # <<filterDate, filterCategory, filterStatus, activeFilterTab>>
  /\ filterDate' = fDate /\ filterCategory' = fCategory
  /\ filterStatus' = fStatus /\ activeFilterTab' = tab
  /\ currentGoals' = useMemo3(currentGoals, goals, "date", FALSE,
                              fDate, fCategory, fStatus)
  /\ currentTasks' = useMemo3(currentTasks, tasks, "scheduledDate", FALSE,
                              fDate, fCategory, fStatus)
  /\ lastEvent' = "FilterChange"
  /\ UNCHANGED <<user, storeVars, flagVars, timerVars, loads, saves, remote,
                 dirty, quiet, loadedFor, pendingMut, logins, burst, edits,
                 raced,
                 viewVars, insight>>

handleQuickDateFilter3(type) ==
  LET date == IF type = "HOJE" THEN Today ELSE Today - 1
  IN FilterChange3(date, filterCategory, filterStatus, type)

SetFilterCategory3(value) ==
  FilterChange3(filterDate, value, filterStatus, activeFilterTab)

SetFilterStatus3(value) ==
  FilterChange3(filterDate, filterCategory, value, activeFilterTab)

(* The load settles: b is the loaded bundle, or three empty arrays when    *)
(* the promise rejected; name tells the two apart in the history.          *)
LoadSettle3(l, b, name, owner) ==
  /\ l \in loads
  /\ IF ~LoadApplies(l) THEN StaleLoad(l)
     ELSE /\ loads' = loads \ {l}
          /\ Render3(b, TRUE, TRUE, TRUE, FALSE)
          /\ hasLoadedRef' = TRUE
          /\ isLoading' = FALSE
          /\ lastEvent' = name
          /\ dirty' = FALSE /\ quiet' = 0 /\ loadedFor' = owner
          /\ pendingMut' = FALSE /\ burst' = 0
          /\ UNCHANGED <<user, projects, blocks, edges, canSave, saves,
                         remote, filterVars, logins, edits, raced,
                         viewVars, insight>>

LoadResolve3(l) ==
  LoadSettle3(l, loadUserData3(remote[l.user]), "LoadResolve", l.user)

LoadReject3(l) == LoadSettle3(l, getEmptyData3, "LoadReject", NoUser)

TimerFire3(t) ==
  /\ t \in timers /\ t.remaining = 0
  /\ LET req == saveUserData(t.user, t.payload) IN
       /\ Cardinality(saves \cup {req}) <= MaxInFlight
       /\ saves' = saves \cup {req}
       /\ pendingMut' = (pendingMut /\ req.payload # Bundle3)
  /\ timers' = timers \ {t}
  /\ lastEvent' = "TimerFire"
  /\ UNCHANGED <<user, storeVars, flagVars, saveTimerRef, saveCleanup, loads,
                 remote, filterVars, memoVars, dirty, quiet, loadedFor,
                 logins, burst, edits, raced, viewVars, insight>>

SaveResolve3(r) ==
  /\ r \in saves
  /\ saves' = saves \ {r}
  /\ remote' = [remote EXCEPT ![r.user] = setDocMerge3(@, r.payload)]
  /\ lastEvent' = "SaveResolve"
  /\ UNCHANGED <<user, storeVars, flagVars, timerVars, loads, filterVars,
                 memoVars, dirty, quiet, loadedFor, pendingMut, logins, burst,
                 edits, raced, viewVars, insight>>

NextVariant ==
  \/ Login("pascoto")
  \/ Logout
  \/ \E l \in loads : LoadResolve3(l)
  \/ \E l \in loads : LoadReject3(l)
  \/ Tick
  \/ \E t \in timers : TimerFire3(t)
  \/ \E r \in saves : SaveResolve3(r)
  \/ \E r \in saves : SaveReject(r)
  \/ \E g \in Range(currentGoals) : ToggleGoal3(g)
  \/ \E t \in Range(currentTasks) : ToggleTask3(t)
  \/ \E type \in {"HOJE", "ONTEM"} : handleQuickDateFilter3(type)
  \/ \E c \in {"TUDO", "Trabalho"} : SetFilterCategory3(c)
  \/ \E s \in {"TODOS", "PENDENTES", "CONCLUIDOS"} : SetFilterStatus3(s)

SpecVariant == Init /\ [][NextVariant]_vars

(* C25: in the three-collection AppContent the displayed goals and tasks   *)
(* are the filter predicate applied to the current collections with the    *)
(* current date, category and status selectors.                            *)
C25_VariantSubsetsCurrent ==
  user # NoUser =>
    /\ currentGoals = applyFilters3(goals, "date", filterDate,
                                    filterCategory, filterStatus)
    /\ currentTasks = applyFilters3(tasks, "scheduledDate", filterDate,
                                    filterCategory, filterStatus)

(* C26: in the three-collection AppContent, once the load of the session   *)
(* has failed and the user has mutated nothing since, no write replaces a  *)
(* stored collection of the user's document by the empty fallback.         *)
C26_VariantEmptyNotPersisted ==
  [][(/\ user # NoUser /\ hasLoadedRef /\ loadedFor = NoUser /\ ~dirty
      /\ remote'[user] # remote[user])
       => \E f \in {"goals", "tasks", "notes"} :
            remote'[user][f] # Arr(<<>>)]_vars

(* -------------------- failed loads and racing mutations --------------- *)
(* The load of the mounted session settled by rejection and no load has    *)
(* succeeded since.                                                        *)
LoadFailed == user # NoUser /\ hasLoadedRef /\ loadedFor = NoUser

(* C27: after a failed load no debounce timer is armed and no save request *)
(* is issued, whatever the user mutates, until a later load succeeds.      *)
C27_FailedLoadDisablesSave ==
  [][ /\ LoadFailed' => (timers' = {} /\ ~canSave')
      /\ LoadFailed => IssuedNow = {} ]_vars

C27_Witness ==
  /\ LoadFailed /\ lastEvent = "AddNote" /\ dirty
  /\ notes = <<"n1">> /\ timers = {}

(* C28: no timer is armed and no save request is issued while the load is  *)
(* in flight, so a mutation made meanwhile reaches no request; when the    *)
(* load settles the six collections are exactly the loaded bundle, or the  *)
(* empty fallback, and a timer armed by that step carries that bundle.     *)
C28_RacingMutationDiscarded ==
  [][ /\ (user' # NoUser /\ isLoading') => timers' = {}
      /\ isLoading => IssuedNow = {}
      /\ lastEvent' = "LoadResolve" =>
           /\ Bundle' = loadUserData(remote[user])
           /\ \A t \in timers' : t.payload = loadUserData(remote[user])
      /\ lastEvent' = "LoadReject" =>
           /\ Bundle' = getEmptyData
           /\ timers' = {} ]_vars

C28_Witness ==
  /\ raced /\ lastEvent = "LoadResolve" /\ user = "yasmin"
  /\ Bundle = getEmptyData /\ timers # {}

(* C29: every timer armed and every save request issued names the user of  *)
(* the session, whose load was the last to succeed, and the request holds  *)
(* the six collections of the store when the timer fires; a document       *)
(* changes only by the merge of a request addressed to it, and the goals   *)
(* and tasks loaded for pascoto never reach the document of yasmin.        *)
C29_SaveAddressing ==
  [][ /\ \A t \in ArmedNow :
           t.user = user' /\ t.user = loadedFor' /\ t.payload = Bundle'
      /\ \A r \in IssuedNow :
           /\ r.user = user /\ r.user = loadedFor /\ r.payload = Bundle
           /\ \E t \in timers \ timers' : t.user = r.user /\ t.payload = r.payload
      /\ \A u \in Users :
           remote'[u] # remote[u] =>
             \E r \in saves \ saves' :
               r.user = u /\ remote'[u] = setDocMerge(remote[u], r.payload)
      /\ Coerce(remote'["yasmin"].goals) = <<>>
      /\ Coerce(remote'["yasmin"].tasks) = <<>> ]_vars

C29_Witness ==
  /\ lastEvent = "SaveResolve" /\ user = "yasmin" /\ logins = 2
  /\ remote["yasmin"].exists /\ remote["yasmin"].goals = Arr(<<>>)
  /\ Coerce(remote["pascoto"].goals) # <<>>

(* ----------------------- edges of a single project -------------------- *)
(* The diagram operations on pascoto's one-project document, whose edge    *)
(* joins two blocks of its project.                                        *)
NextIntegrity ==
  \/ Login("pascoto")
  \/ \E l \in loads : LoadResolve(l)
  \/ Navigate("/strategy")
  \/ SetActiveCompany("Pascoto100k")
  \/ \E q \in ShownProjects : AddBlock(q, StepPayload)
  \/ \E q \in ShownProjects : TemplateFunnel(q)
  \/ \E q \in ShownProjects : TemplateStructure(q)
  \/ \E q \in ShownProjects : \E i \in IdsIn(blocks) : DuplicateNode(q, i)
  \/ \E q \in ShownProjects : \E ch \in NodeChanges(q) : NodesChange(q, ch)
  \/ \E q \in ShownProjects : \E i, j \in IdsIn(blocks) : \E now \in Clock :
       Connect(q, i, j, now)
  \/ \E q \in ShownProjects : \E i \in IdsIn(edges) : EdgesChange(q, i)
  \/ \E q \in ShownProjects : \E b \in Range(blocks) : DeleteBlock(q, b)
  \/ \E q \in ShownProjects : DeleteProject(q)

SpecIntegrity == Init /\ [][NextIntegrity]_vars

(* C30: every edge's source and target are ids of blocks of the store, and *)
(* both blocks have the projectId of the edge.                             *)
C30_EdgeIntegrity ==
  \A e \in Range(edges) :
    \E s \in Range(blocks) : \E t \in Range(blocks) :
      /\ s.id = e.source /\ t.id = e.target
      /\ s.projectId = e.projectId /\ t.projectId = e.projectId

====
